---- MODULE Spec2Model ----
(***************************************************************************)
(* Valuation and forecasting calculation engine of capvero-backend.        *)
(*                                                                         *)
(* Every calculator is a pure request/response function, so the state      *)
(* machine is a single request slot: from "idle" one operation is invoked  *)
(* on inputs drawn from bounded sets, its outcome is recorded in `ret',    *)
(* and Return discards the parameter and result objects again.             *)
(*                                                                         *)
(* Numbers.  A number is a record [c, e] standing for c * 10^e, the        *)
(* representation of Python's decimal.Decimal.  Decimal operations round   *)
(* their result half-even to the context precision; float operations are   *)
(* modelled the same way at the (smaller) float precision.  CPython        *)
(* carries 28 significant decimal digits in the default decimal context    *)
(* and about 17 in a float; the model carries DecimalPrec and FloatDigits  *)
(* digits, scaled down so that every intermediate coefficient fits the     *)
(* 32-bit integers of the model checker.  Monetary inputs are scaled       *)
(* accordingly: amounts below 10 with up to three decimals here play the   *)
(* role of amounts below 10^15 in the program.                             *)
(***************************************************************************)
EXTENDS Integers, Sequences, FiniteSets, TLC

VARIABLES
    pc,     \* "idle", or "done" once the invoked operation has returned or raised
    op,     \* the operation invoked
    args,   \* its parameters
    ret,    \* its result, or the exception it raised (ret.status)
    log     \* the calls it made to its collaborators (callback, session), in order

vars == <<pc, op, args, ret, log>>

(***************************************************************************)
(* Bounds of the model.                                                    *)
(***************************************************************************)
MaxSteps == 3      \* largest `steps' of a sensitivity sweep
MaxPreds == 2      \* largest number of predictions / projections in a list
MaxMethods == 2    \* largest number of method requests in one valuation
MaxFcf == 2        \* largest number of FCF projection years
MaxSweeps == 2     \* largest number of sweep results given to the tornado ranking
MaxHistory == 2    \* largest number of historical points of a manual forecast
MaxYears == 3      \* largest number of historical earnings years

(***************************************************************************)
(* Numeric precision (see the header).                                     *)
(***************************************************************************)
DecimalPrec == 4
FloatDigits == 3

(***************************************************************************)
(* Integer helpers.                                                        *)
(***************************************************************************)
Abs(n) == IF n < 0 THEN -n ELSE n

Sign(n) == IF n < 0 THEN -1 ELSE IF n > 0 THEN 1 ELSE 0

RECURSIVE Pow10(_)
Pow10(n) == IF n <= 0 THEN 1 ELSE 10 * Pow10(n - 1)

RECURSIVE NumDigits(_)
NumDigits(n) == IF n < 10 THEN 1 ELSE 1 + NumDigits(n \div 10)

\* The integer nearest to n / d (d > 0), ties to the even neighbour:
\* ROUND_HALF_EVEN, the rounding of the default decimal context and of floats.
RoundHalfEven(n, d) ==
    LET q == n \div d
        r == n % d
    IN  IF 2 * r < d THEN q
        ELSE IF 2 * r > d THEN q + 1
        ELSE IF q % 2 = 0 THEN q ELSE q + 1

(***************************************************************************)
(* Numbers c * 10^e and their exact arithmetic.                            *)
(***************************************************************************)
Dec(c, e) == [c |-> c, e |-> e]

Int2Dec(n) == Dec(n, 0)

D0 == Dec(0, 0)
D1 == Dec(1, 0)

MinOf(a, b) == IF a <= b THEN a ELSE b

Neg(a) == Dec(-a.c, a.e)

AddX(a, b) ==
    LET m == MinOf(a.e, b.e)
    IN  Dec(a.c * Pow10(a.e - m) + b.c * Pow10(b.e - m), m)

SubX(a, b) == AddX(a, Neg(b))

MulX(a, b) == Dec(a.c * b.c, a.e + b.e)

NumEq(a, b) == SubX(a, b).c = 0
NumLt(a, b) == SubX(a, b).c < 0
NumLe(a, b) == SubX(a, b).c <= 0
NumAbs(a) == Dec(Abs(a.c), a.e)

\* Number of digits after the decimal point that the value of x needs.
RECURSIVE Decimals(_)
Decimals(x) ==
    IF x.c = 0 \/ x.e >= 0 THEN 0
    ELSE IF x.c % 10 = 0 THEN Decimals(Dec(x.c \div 10, x.e + 1))
    ELSE -x.e

(***************************************************************************)
(* Rounding to a precision: what every Decimal operation does with its     *)
(* exact result (prec = DecimalPrec) and every float operation with its    *)
(* exact result (prec = FloatDigits).                                      *)
(***************************************************************************)
Ctx(x, prec) ==
    LET n == NumDigits(Abs(x.c))
    IN  IF n <= prec THEN x
        ELSE LET k == n - prec
                 q == RoundHalfEven(x.c, Pow10(k))
             IN  IF Abs(q) = Pow10(prec) THEN Dec(q \div 10, x.e + k + 1)
                 ELSE Dec(q, x.e + k)

\* a / b correctly rounded to prec digits (b # 0).
DivCtx(a, b, prec) ==
    IF a.c = 0 THEN Dec(0, a.e - b.e)
    ELSE
    LET A == Abs(a.c)
        B == Abs(b.c)
        sg == Sign(a.c) * Sign(b.c)
        s1 == prec + NumDigits(B) - NumDigits(A)
        Scaled(s) == IF s >= 0 THEN <<A * Pow10(s), B>> ELSE <<A, B * Pow10(-s)>>
        big == Scaled(s1)[1] \div Scaled(s1)[2] >= Pow10(prec)
        s == IF big THEN s1 - 1 ELSE s1
        N == Scaled(s)[1]
        M == Scaled(s)[2]
    IN  Ctx(Dec(sg * RoundHalfEven(N, M), a.e - b.e - s), prec)

RECURSIVE PowX(_, _)
PowX(a, n) == IF n = 0 THEN D1 ELSE MulX(a, PowX(a, n - 1))

(***************************************************************************)
(* decimal.Decimal arithmetic under the default context.                   *)
(***************************************************************************)
DAdd(a, b) == Ctx(AddX(a, b), DecimalPrec)
DSub(a, b) == Ctx(SubX(a, b), DecimalPrec)
DMul(a, b) == Ctx(MulX(a, b), DecimalPrec)
DDiv(a, b) == DivCtx(a, b, DecimalPrec)
DPow(a, n) == Ctx(PowX(a, n), DecimalPrec)

\* x.quantize(Decimal("0.01")): the value rounded half-even to 2 decimals.
Quantize2(x) ==
    IF x.e >= -2 THEN Dec(x.c * Pow10(x.e + 2), -2)
    ELSE Dec(RoundHalfEven(x.c, Pow10(-2 - x.e)), -2)

\* quantize raises InvalidOperation when the result needs more digits than
\* the context precision.
QuantizeOk(x) ==
    LET q == IF x.e >= -2 THEN x ELSE Quantize2(x)
    IN  q.c = 0 \/ NumDigits(Abs(q.c)) + (q.e + 2) <= DecimalPrec

(***************************************************************************)
(* float arithmetic and conversions.                                       *)
(***************************************************************************)
Float(x) == Ctx(x, FloatDigits)
FAdd(a, b) == Ctx(AddX(a, b), FloatDigits)
FSub(a, b) == Ctx(SubX(a, b), FloatDigits)
FMul(a, b) == Ctx(MulX(a, b), FloatDigits)
FDiv(a, b) == DivCtx(a, b, FloatDigits)

RECURSIVE StripZeros(_)
StripZeros(x) ==
    IF x.c # 0 /\ x.c % 10 = 0 THEN StripZeros(Dec(x.c \div 10, x.e + 1)) ELSE x

\* Decimal(str(f)) of a float f: str prints the shortest digits that identify
\* f, with at least one decimal ("2.0"), and Decimal takes them over exactly.
DecOfFloat(f) ==
    LET n == StripZeros(f)
    IN  IF n.c = 0 THEN Dec(0, -1)
        ELSE IF n.e >= 0 THEN Dec(n.c * Pow10(n.e + 1), -1)
        ELSE n

\* The largest r with r * r <= n, for lo * lo <= n < hi * hi.
RECURSIVE ISqrt(_, _, _)
ISqrt(n, lo, hi) ==
    IF hi - lo <= 1 THEN lo
    ELSE LET mid == (lo + hi) \div 2
         IN  IF mid * mid <= n THEN ISqrt(n, mid, hi) ELSE ISqrt(n, lo, mid)

\* sqrt of a float x >= 0, correctly rounded: the coefficient is scaled to
\* 2 * FloatDigits digits (or one less) at an even exponent, and the integer
\* root is rounded to the nearer neighbour.
FSqrt(x) ==
    IF x.c = 0 THEN Dec(0, 0)
    ELSE LET k0 == 2 * FloatDigits - NumDigits(x.c)
             k == IF (x.e - k0) % 2 = 0 THEN k0 ELSE k0 - 1
             n == x.c * Pow10(k)
             r == ISqrt(n, 0, Pow10(FloatDigits))
             q == IF n - r * r <= r THEN r ELSE r + 1
         IN  Float(Dec(q, (x.e - k) \div 2))

RECURSIVE FSum(_)
FSum(q) == IF q = <<>> THEN Dec(0, 0) ELSE FAdd(FSum(SubSeq(q, 1, Len(q) - 1)), q[Len(q)])

\* numpy.mean and numpy.std of a non-empty list of floats.
FMean(q) == FDiv(FSum(q), Int2Dec(Len(q)))
FStd(q) ==
    LET m == FMean(q)
        sq == [i \in 1..Len(q) |-> FMul(FSub(q[i], m), FSub(q[i], m))]
    IN  FSqrt(FMean(sq))

\* Python's None.
None == [none |-> TRUE]

NoArgs == [none |-> TRUE]
NoRet == [status |-> "none"]

Raise(kind) == [status |-> kind]

(***************************************************************************)
(* Practitioner method (services/valuation/practitioner.py).               *)
(***************************************************************************)
PractitionerParamsValid(p) ==
    ~(NumLt(p.earnings_weight, D0) \/ NumLt(D1, p.earnings_weight))

\* calculate with the asset value weighted by earnings_weight as well.
PractitionerCalculateOneWeight(p) ==
    LET asset_weight == DSub(D1, p.earnings_weight)
        practitioner_value == DAdd(DMul(p.earnings_value, p.earnings_weight),
                                   DMul(p.asset_value, p.earnings_weight))
    IN  IF ~QuantizeOk(practitioner_value) THEN Raise("InvalidOperation")
        ELSE [status |-> "ok",
              method |-> "practitioner",
              calculated_value |-> Float(Quantize2(practitioner_value)),
              details |-> [earnings_value |-> Float(p.earnings_value),
                           asset_value |-> Float(p.asset_value),
                           earnings_weight |-> Float(p.earnings_weight),
                           asset_weight |-> Float(asset_weight),
                           weighted_value |-> Float(Quantize2(practitioner_value))]]

PractitionerCalculate(p) ==
    LET asset_weight == DSub(D1, p.earnings_weight)
        practitioner_value == DAdd(DMul(p.earnings_value, p.earnings_weight),
                                   DMul(p.asset_value, asset_weight))
    IN  IF ~QuantizeOk(practitioner_value) THEN Raise("InvalidOperation")
        ELSE [status |-> "ok",
              method |-> "practitioner",
              calculated_value |-> Float(Quantize2(practitioner_value)),
              details |-> [earnings_value |-> Float(p.earnings_value),
                           asset_value |-> Float(p.asset_value),
                           earnings_weight |-> Float(p.earnings_weight),
                           asset_weight |-> Float(asset_weight),
                           weighted_value |-> Float(Quantize2(practitioner_value))]]

\* PractitionerParams(...) followed by PractitionerService.calculate(params).
Practitioner(p) ==
    IF PractitionerParamsValid(p) THEN PractitionerCalculate(p)
    ELSE Raise("ValueError")

PractEarnings == {Dec(-15, -1), D0, Dec(1005, -3), Dec(25, -1), Dec(999, -2)}
PractAssets == {Dec(-5, -1), D0, Dec(7, 0), Dec(2015, -3)}
PractWeights == {Dec(-1, -1), D0, Dec(5, -1), Dec(67, -2), D1, Dec(11, -1)}

PractitionerCall ==
    /\ pc = "idle"
    /\ \E ev \in PractEarnings, av \in PractAssets, w \in PractWeights :
         LET p == [earnings_value |-> ev, asset_value |-> av, earnings_weight |-> w]
         IN  /\ args' = p
             /\ ret' = Practitioner(p)
    /\ op' = "practitioner"
    /\ log' = <<>>
    /\ pc' = "done"

(***************************************************************************)
(* EBITDA multiple (services/valuation/ebitda_multiple.py).                *)
(***************************************************************************)
CompanySizes == {"micro", "small", "medium", "large"}

EBITDAParamsValid(p) ==
    /\ 1 <= p.risk_score /\ p.risk_score <= 10
    /\ ~NumLt(p.growth_rate, D0)

\* A growth factor whose last branch forgets the cap.
calculate_growth_factor_uncapped(growth_rate) ==
    IF NumLt(growth_rate, Int2Dec(10)) THEN D0
    ELSE DMul(DSub(growth_rate, Int2Dec(10)), Dec(15, -3))

calculate_growth_factor(growth_rate) ==
    IF NumLt(growth_rate, Int2Dec(10)) THEN D0
    ELSE IF NumLt(growth_rate, Int2Dec(20))
         THEN DMul(DSub(growth_rate, Int2Dec(10)), Dec(15, -3))
    ELSE LET g == DMul(DSub(growth_rate, Int2Dec(10)), Dec(15, -3))
         IN  IF NumLt(g, Dec(30, -2)) THEN g ELSE Dec(30, -2)

calculate_risk_factor(risk_score) ==
    DMul(DDiv(Int2Dec(risk_score - 1), Int2Dec(9)), Dec(30, -2))

calculate_size_factor(company_size) ==
    CASE company_size = "micro" -> Dec(-20, -2)
      [] company_size = "small" -> Dec(-10, -2)
      [] company_size = "medium" -> Dec(0, -2)
      [] company_size = "large" -> Dec(10, -2)
      [] OTHER -> D0

\* Step 4 of calculate: the unrounded equity value.
EBITDAEquity(p, enterprise_value) ==
    DAdd(DSub(DAdd(enterprise_value, p.cash), p.debt), p.non_operating_assets)

EBITDACalculate(p) ==
    LET growth_factor == calculate_growth_factor(p.growth_rate)
        risk_factor == calculate_risk_factor(p.risk_score)
        size_factor == calculate_size_factor(p.company_size)
        adjusted_multiple ==
            DMul(p.base_multiple,
                 DAdd(DSub(DAdd(D1, growth_factor), risk_factor), size_factor))
        enterprise_value == DMul(p.ebitda, adjusted_multiple)
        equity_value == EBITDAEquity(p, enterprise_value)
    IN  IF ~(QuantizeOk(enterprise_value) /\ QuantizeOk(equity_value)
             /\ QuantizeOk(adjusted_multiple))
        THEN Raise("InvalidOperation")
        ELSE [status |-> "ok",
              method |-> "ebitda_multiple",
              calculated_value |-> Float(Quantize2(equity_value)),
              enterprise_value |-> Float(Quantize2(enterprise_value)),
              equity_value |-> Float(Quantize2(equity_value)),
              details |->
                [ebitda_normalized |-> Float(p.ebitda),
                 base_multiple |-> Float(p.base_multiple),
                 adjusted_multiple |-> Float(Quantize2(adjusted_multiple)),
                 adjustments |-> [growth_factor |-> Float(growth_factor),
                                  risk_factor |-> Float(risk_factor),
                                  size_factor |-> Float(size_factor)],
                 bridge |-> [enterprise_value |-> Float(Quantize2(enterprise_value)),
                             plus_cash |-> Float(p.cash),
                             minus_debt |-> Float(Neg(p.debt)),
                             plus_non_operating |-> Float(p.non_operating_assets),
                             equity_value |-> Float(Quantize2(equity_value))]]]

\* EBITDAMultipleParams(...) followed by EBITDAMultipleService.calculate(params).
EBITDAMultiple(p) ==
    IF EBITDAParamsValid(p) THEN EBITDACalculate(p) ELSE Raise("ValueError")

EbitdaVals == {Dec(-2, 0), D0, Dec(1005, -3), Dec(15, -1)}
MultipleVals == {D1, Dec(3, 0)}
GrowthVals == {Dec(-1, 0), D0, Dec(15, 0), Dec(40, 0)}
RiskVals == {0, 1, 4, 10, 11}
EbitdaCashVals == {D0, Dec(1, -2), Dec(5, -3)}
EbitdaDebtVals == {D0, Dec(5, -1)}
EbitdaNoaVals == {D0, D1}

EBITDAMultipleCall ==
    /\ pc = "idle"
    /\ \E e \in EbitdaVals, m \in MultipleVals, g \in GrowthVals, r \in RiskVals,
          sz \in CompanySizes, c \in EbitdaCashVals, d \in EbitdaDebtVals,
          n \in EbitdaNoaVals :
         LET p == [ebitda |-> e, base_multiple |-> m, growth_rate |-> g,
                   risk_score |-> r, company_size |-> sz, cash |-> c, debt |-> d,
                   non_operating_assets |-> n]
         IN  /\ args' = p
             /\ ret' = EBITDAMultiple(p)
    /\ op' = "ebitda_multiple"
    /\ log' = <<>>
    /\ pc' = "done"

\* Growth rates around the branch points 10 and 20 and the cap at 30.
GrowthRateVals ==
    {Dec(-1, 0), D0, Dec(5, 0), Dec(999, -2), Dec(10, 0), Dec(1001, -2), Dec(15, 0),
     Dec(1999, -2), Dec(20, 0), Dec(25, 0), Dec(2999, -2), Dec(30, 0), Dec(3001, -2),
     Dec(40, 0), Dec(1, 3)}

\* EBITDAMultipleService.calculate_growth_factor called on its own.
GrowthFactorCall ==
    /\ pc = "idle"
    /\ \E g \in GrowthRateVals :
         /\ args' = [growth_rate |-> g]
         /\ ret' = [status |-> "ok", value |-> calculate_growth_factor(g)]
    /\ op' = "calculate_growth_factor"
    /\ log' = <<>>
    /\ pc' = "done"

(***************************************************************************)
(* Asset value (services/valuation/asset_value.py).                        *)
(***************************************************************************)
D100 == Dec(100, 0)

AssetValueParamsValid(p) ==
    /\ ~(NumLt(p.machinery_depreciation, D0) \/ NumLt(D100, p.machinery_depreciation))
    /\ ~(NumLt(p.receivables_risk, D0) \/ NumLt(D100, p.receivables_risk))

AssetValueCalculate(p) ==
    LET machinery_net ==
            DMul(p.machinery_replacement_value,
                 DSub(D1, DDiv(p.machinery_depreciation, D100)))
        fixed_assets_total ==
            DAdd(DAdd(p.real_estate_market_value, machinery_net), p.intangible_assets)
        receivables_provision == DDiv(DMul(p.receivables, p.receivables_risk), D100)
        receivables_net == DSub(p.receivables, receivables_provision)
        current_assets_total == DAdd(DAdd(p.inventory_value, receivables_net), p.cash)
        total_assets == DAdd(fixed_assets_total, current_assets_total)
        net_asset_value == DSub(total_assets, p.liabilities)
    IN  IF ~(/\ QuantizeOk(machinery_net) /\ QuantizeOk(fixed_assets_total)
             /\ QuantizeOk(receivables_provision) /\ QuantizeOk(receivables_net)
             /\ QuantizeOk(current_assets_total) /\ QuantizeOk(total_assets)
             /\ QuantizeOk(net_asset_value))
        THEN Raise("InvalidOperation")
        ELSE [status |-> "ok",
              method |-> "asset_value",
              calculated_value |-> Float(Quantize2(net_asset_value)),
              details |->
                [fixed_assets |->
                   [real_estate |-> Float(p.real_estate_market_value),
                    machinery_gross |-> Float(p.machinery_replacement_value),
                    machinery_depreciation |->
                        Float(DSub(p.machinery_replacement_value,
                                   Quantize2(machinery_net))),
                    machinery_net |-> Float(Quantize2(machinery_net)),
                    intangibles |-> Float(p.intangible_assets),
                    total |-> Float(Quantize2(fixed_assets_total))],
                 current_assets |->
                   [inventory |-> Float(p.inventory_value),
                    receivables_gross |-> Float(p.receivables),
                    receivables_provision |-> Float(Quantize2(receivables_provision)),
                    receivables_net |-> Float(Quantize2(receivables_net)),
                    cash |-> Float(p.cash),
                    total |-> Float(Quantize2(current_assets_total))],
                 total_assets |-> Float(Quantize2(total_assets)),
                 liabilities |-> Float(p.liabilities),
                 net_asset_value |-> Float(Quantize2(net_asset_value))]]

\* AssetValueParams(...) followed by AssetValueService.calculate(params).
AssetValue(p) ==
    IF AssetValueParamsValid(p) THEN AssetValueCalculate(p) ELSE Raise("ValueError")

RealEstateVals == {D0, D1}
MachineryVals == {D0, Dec(11, -1), Dec(2, 0)}
DepreciationVals == {Dec(-1, 0), Dec(5, 0), Dec(30, 0), Dec(101, 0)}
InventoryVals == {D0, Dec(5, -1)}
ReceivableVals == {D0, D1}
ReceivableRiskVals == {D0, Dec(10, 0), Dec(101, 0)}
AssetCashVals == {D0, Dec(4, -3)}
IntangibleVals == {D0, Dec(4, -3)}
LiabilityVals == {D0, Dec(1, -2), Dec(9, 0)}

AssetValueCall ==
    /\ pc = "idle"
    /\ \E re \in RealEstateVals, mv \in MachineryVals, md \in DepreciationVals,
          iv \in InventoryVals, rc \in ReceivableVals, rr \in ReceivableRiskVals,
          c \in AssetCashVals, ia \in IntangibleVals, li \in LiabilityVals :
         LET p == [real_estate_market_value |-> re,
                   machinery_replacement_value |-> mv,
                   machinery_depreciation |-> md,
                   inventory_value |-> iv,
                   receivables |-> rc,
                   receivables_risk |-> rr,
                   cash |-> c,
                   intangible_assets |-> ia,
                   liabilities |-> li]
         IN  /\ args' = p
             /\ ret' = AssetValue(p)
    /\ op' = "asset_value"
    /\ log' = <<>>
    /\ pc' = "done"

(***************************************************************************)
(* Discounted cash flow (services/valuation/dcf.py).                       *)
(***************************************************************************)
\* The validation without its check of a negative terminal growth rate.
DCFParamsValidNoNegativeCheck(p) ==
    /\ Len(p.fcf_projections) > 0
    /\ ~NumLe(p.wacc, D0)
    /\ NumLt(p.terminal_growth_rate, p.wacc)

DCFParamsValid(p) ==
    /\ Len(p.fcf_projections) > 0
    /\ ~NumLe(p.wacc, D0)
    /\ NumLt(p.terminal_growth_rate, p.wacc)
    /\ ~NumLt(p.terminal_growth_rate, D0)

\* pv of projection year t: fcf / (1 + wacc) ** t.
DCFPresentValue(p, t) ==
    DDiv(p.fcf_projections[t], DPow(DAdd(D1, p.wacc), t))

\* sum_pv_fcfs after the first n iterations of the loop.
RECURSIVE DCFSumPv(_, _)
DCFSumPv(p, n) ==
    IF n = 0 THEN D0 ELSE DAdd(DCFSumPv(p, n - 1), DCFPresentValue(p, n))

\* The terminal value capitalised with (g - wacc) instead of (wacc - g).
DCFTerminalValueNegated(p) ==
    DDiv(DMul(p.fcf_projections[Len(p.fcf_projections)],
              DAdd(D1, p.terminal_growth_rate)),
         DSub(p.terminal_growth_rate, p.wacc))

\* Step 2 of calculate: fcf_final * (1 + g) / (wacc - g).
DCFTerminalValue(p) ==
    DDiv(DMul(p.fcf_projections[Len(p.fcf_projections)],
              DAdd(D1, p.terminal_growth_rate)),
         DSub(p.wacc, p.terminal_growth_rate))

\* Steps 1-4 of calculate: the unrounded enterprise value.
DCFEnterpriseValue(p) ==
    LET n == Len(p.fcf_projections)
        pv_terminal == DDiv(DCFTerminalValue(p), DPow(DAdd(D1, p.wacc), n))
    IN  DAdd(DCFSumPv(p, n), pv_terminal)

DCFCalculate(p) ==
    LET n == Len(p.fcf_projections)
        pv_fcfs == [t \in 1..n |-> Float(DCFPresentValue(p, t))]
        sum_pv_fcfs == DCFSumPv(p, n)
        terminal_value == DCFTerminalValue(p)
        pv_terminal == DDiv(terminal_value, DPow(DAdd(D1, p.wacc), n))
        enterprise_value == DCFEnterpriseValue(p)
        equity_value ==
            DAdd(DSub(DAdd(enterprise_value, p.cash), p.debt), p.non_operating_assets)
    IN  IF ~(/\ QuantizeOk(enterprise_value) /\ QuantizeOk(equity_value)
             /\ QuantizeOk(terminal_value) /\ QuantizeOk(pv_terminal)
             /\ QuantizeOk(sum_pv_fcfs))
        THEN Raise("InvalidOperation")
        ELSE [status |-> "ok",
              method |-> "dcf",
              calculated_value |-> Float(Quantize2(equity_value)),
              enterprise_value |-> Float(Quantize2(enterprise_value)),
              equity_value |-> Float(Quantize2(equity_value)),
              details |->
                [wacc |-> Float(p.wacc),
                 terminal_growth_rate |-> Float(p.terminal_growth_rate),
                 forecast_period |-> n,
                 fcf_projections |-> [t \in 1..n |-> Float(p.fcf_projections[t])],
                 pv_fcfs |-> pv_fcfs,
                 sum_pv_fcfs |-> Float(Quantize2(sum_pv_fcfs)),
                 terminal_value |-> Float(Quantize2(terminal_value)),
                 pv_terminal_value |-> Float(Quantize2(pv_terminal)),
                 bridge |-> [enterprise_value |-> Float(Quantize2(enterprise_value)),
                             plus_cash |-> Float(p.cash),
                             minus_debt |-> Float(Neg(p.debt)),
                             plus_non_operating |-> Float(p.non_operating_assets),
                             equity_value |-> Float(Quantize2(equity_value))]]]

\* DCFParams(...) followed by DCFService.calculate(params).
DCF(p) ==
    IF DCFParamsValid(p) THEN DCFCalculate(p) ELSE Raise("ValueError")

\* All sequences over S of length lo..hi.
SeqsOf(S, lo, hi) == UNION {[1..n -> S] : n \in lo..hi}

FcfVals == {Dec(-1, 0), Dec(1, -3), Dec(1, -2), D1, Dec(2, 0)}
WaccVals == {D0, Dec(1, -2), Dec(5, -1), Dec(3, 0)}
TerminalGrowthVals == {Dec(-1, -2), D0, Dec(25, -2), Dec(5, -1)}
DcfCashVals == {D0, Dec(5, -1)}
DcfDebtVals == {D0, Dec(9, 0)}

DCFCall ==
    /\ pc = "idle"
    /\ \E f \in SeqsOf(FcfVals, 0, MaxFcf), w \in WaccVals, g \in TerminalGrowthVals,
          c \in DcfCashVals, d \in DcfDebtVals :
         LET p == [fcf_projections |-> f, wacc |-> w, terminal_growth_rate |-> g,
                   cash |-> c, debt |-> d, non_operating_assets |-> D0]
         IN  /\ args' = p
             /\ ret' = DCF(p)
    /\ op' = "dcf"
    /\ log' = <<>>
    /\ pc' = "done"

(***************************************************************************)
(* Earnings value (services/valuation/earnings_value.py).                  *)
(***************************************************************************)
\* The validation rejecting a zero capitalization rate as well.
EarningsValueParamsValidPositiveRate(p) ==
    /\ Len(p.historical_earnings) >= 3
    /\ ~NumLt(p.risk_free_rate, D0)
    /\ ~NumLt(p.risk_premium, D0)
    /\ ~(p.use_practitioner_method /\ p.asset_value = None)
    /\ ~NumEq(AddX(p.risk_free_rate, p.risk_premium), D0)

EarningsValueParamsValid(p) ==
    /\ Len(p.historical_earnings) >= 3
    /\ ~NumLt(p.risk_free_rate, D0)
    /\ ~NumLt(p.risk_premium, D0)
    /\ ~(p.use_practitioner_method /\ p.asset_value = None)

\* sum(...) of Decimals: the running total starts at the integer 0.
RECURSIVE DSum(_)
DSum(q) == IF q = <<>> THEN Dec(0, 0) ELSE DAdd(DSum(SubSeq(q, 1, Len(q) - 1)), q[Len(q)])

calculate_sustainable_earnings(historical_earnings) ==
    DDiv(DSum(historical_earnings), Int2Dec(Len(historical_earnings)))

\* Truth value of an Optional[Decimal]: None and zero are false.
Truthy(x) == x # None /\ x.c # 0

EarningsValueCalculate(p) ==
    LET sustainable_earnings == calculate_sustainable_earnings(p.historical_earnings)
        capitalization_rate == DAdd(p.risk_free_rate, p.risk_premium)
        earnings_value == DMul(DDiv(sustainable_earnings, capitalization_rate), D100)
        practitioner_adjustment == p.use_practitioner_method /\ Truthy(p.asset_value)
        final_value ==
            IF practitioner_adjustment
            THEN DDiv(DAdd(DMul(Dec(2, 0), earnings_value), p.asset_value), Dec(3, 0))
            ELSE earnings_value
    IN  IF capitalization_rate.c = 0
        THEN Raise(IF sustainable_earnings.c = 0 THEN "InvalidOperation"
                   ELSE "DivisionByZero")
        ELSE IF ~(/\ QuantizeOk(sustainable_earnings) /\ QuantizeOk(earnings_value)
                  /\ QuantizeOk(final_value))
        THEN Raise("InvalidOperation")
        ELSE [status |-> "ok",
              method |-> "earnings_value",
              calculated_value |-> Float(Quantize2(final_value)),
              details |->
                [historical_earnings |->
                    [i \in 1..Len(p.historical_earnings) |-> Float(p.historical_earnings[i])],
                 sustainable_earnings |-> Float(Quantize2(sustainable_earnings)),
                 risk_free_rate |-> Float(p.risk_free_rate),
                 risk_premium |-> Float(p.risk_premium),
                 capitalization_rate |-> Float(capitalization_rate),
                 pure_earnings_value |-> Float(Quantize2(earnings_value)),
                 asset_value |-> IF Truthy(p.asset_value) THEN Float(p.asset_value) ELSE None,
                 practitioner_adjustment |-> practitioner_adjustment,
                 final_value |-> Float(Quantize2(final_value))]]

\* EarningsValueParams(...) followed by EarningsValueService.calculate(params).
EarningsValue(p) ==
    IF EarningsValueParamsValid(p) THEN EarningsValueCalculate(p) ELSE Raise("ValueError")

EarningsVals == {Dec(-1, 0), Dec(1, -2), Dec(2, -2)}
RiskFreeVals == {Dec(-1, 0), D0, Dec(2, 0)}
RiskPremiumVals == {Dec(-1, 0), D0, Dec(3, 0)}
EarningsAssetVals == {None, D0, Dec(15, -1)}

EarningsValueCall ==
    /\ pc = "idle"
    /\ \E he \in SeqsOf(EarningsVals, 2, MaxYears), rf \in RiskFreeVals,
          rp \in RiskPremiumVals, pm \in BOOLEAN, av \in EarningsAssetVals :
         LET p == [historical_earnings |-> he, risk_free_rate |-> rf, risk_premium |-> rp,
                   use_practitioner_method |-> pm, asset_value |-> av]
         IN  /\ args' = p
             /\ ret' = EarningsValue(p)
    /\ op' = "earnings_value"
    /\ log' = <<>>
    /\ pc' = "done"

(***************************************************************************)
(* Sensitivity analysis (services/valuation/sensitivity.py).               *)
(***************************************************************************)
\* The validation without its check of the range.
SensitivityParamsValidStepsOnly(sp) ==
    ~(sp.steps < 2)

SensitivityParamsValid(sp) ==
    /\ ~NumLe(sp.max_value, sp.min_value)
    /\ ~(sp.steps < 2)

\* The valuation callable handed to perform_analysis: it builds the
\* practitioner parameters from the dictionary it is given and calculates.
valuation_func(test_params) == Practitioner(test_params)

step_size(sp) == DDiv(DSub(sp.max_value, sp.min_value), Int2Dec(sp.steps))

\* The sweep with its last point dropped: range(steps) for range(steps + 1).
SweepIndicesShort(sp) == 0..(sp.steps - 1)

\* The loop range: range(params.steps + 1).
SweepIndices(sp) == 0..sp.steps

test_value(sp, i) == DAdd(sp.min_value, DMul(Int2Dec(i), step_size(sp)))

\* test_params = base_params.copy(); test_params[variable_name] = test_value
test_params(sp, base_params, i) ==
    [k \in DOMAIN base_params \cup {sp.variable_name} |->
        IF k = sp.variable_name THEN test_value(sp, i) ELSE base_params[k]]

\* The value of key k of a result dictionary, None when it is absent.
DictGet(d, k) == IF k \in DOMAIN d THEN d[k] ELSE None

\* The parameter dictionaries perform_analysis passes to the callable, in
\* call order: the loop stops at the first call that raises.
RECURSIVE SweepCalls(_, _, _, _)
SweepCalls(sp, base_params, i, last) ==
    IF i > last THEN <<>>
    ELSE IF valuation_func(test_params(sp, base_params, i)).status # "ok"
         THEN <<test_params(sp, base_params, i)>>
    ELSE <<test_params(sp, base_params, i)>>
            \o SweepCalls(sp, base_params, i + 1, last)

perform_analysis(sp, base_params) ==
    LET idx == SweepIndices(sp)
        n == Cardinality(idx)
        val(i) == valuation_func(test_params(sp, base_params, i))
        failed == {i \in idx : val(i).status # "ok"}
    IN  IF failed # {}
        THEN Raise(val(CHOOSE i \in failed : \A j \in failed : i <= j).status)
        ELSE [status |-> "ok",
              variable_name |-> sp.variable_name,
              base_value |-> Float(sp.base_value),
              min_value |-> Float(sp.min_value),
              max_value |-> Float(sp.max_value),
              steps |-> sp.steps,
              results |->
                [j \in 1..n |->
                   [variable_value |-> Float(test_value(sp, j - 1)),
                    enterprise_value |-> DictGet(val(j - 1), "enterprise_value"),
                    equity_value |-> DictGet(val(j - 1), "calculated_value")]]]

\* base_params after a sweep that assigns into the caller's dictionary.
BaseParamsAliased(sp, base_params, calls) ==
    IF calls = <<>> THEN base_params ELSE calls[Len(calls)]

\* base_params as the caller finds it after the call: every point assigns
\* into its own base_params.copy(), so no assignment reaches base_params.
BaseParamsAfter(sp, base_params, calls) == base_params

SweepVariables == {"earnings_value", "asset_value", "earnings_weight"}
SweepRangeVals == {Dec(-1, 0), D0, Dec(5, -1), D1, Dec(1001, -3), Dec(2, 0)}
SweepBaseParams ==
    {[earnings_value |-> ev, asset_value |-> Dec(5, -1), earnings_weight |-> w] :
        ev \in {D1, Dec(25, -1)}, w \in {Dec(5, -1), D1}}

PerformAnalysisCall ==
    /\ pc = "idle"
    /\ \E v \in SweepVariables, lo \in SweepRangeVals, hi \in SweepRangeVals,
          st \in 1..MaxSteps, bp \in SweepBaseParams :
         LET sp == [variable_name |-> v, base_value |-> bp[v], min_value |-> lo,
                    max_value |-> hi, steps |-> st]
         IN  IF SensitivityParamsValid(sp)
             THEN \E calls \in {SweepCalls(sp, bp, 0, sp.steps)} :
                    /\ ret' = perform_analysis(sp, bp)
                    /\ log' = calls
                    /\ args' = [params |-> sp, base_params |-> bp,
                                base_params_after |-> BaseParamsAfter(sp, bp, calls)]
             ELSE /\ ret' = Raise("ValueError")
                  /\ log' = <<>>
                  /\ args' = [params |-> sp, base_params |-> bp,
                              base_params_after |-> bp]
    /\ op' = "perform_analysis"
    /\ pc' = "done"

(***************************************************************************)
(* Tornado ranking (SensitivityService.calculate_tornado_chart_data).      *)
(***************************************************************************)
RECURSIVE SeqMin(_)
SeqMin(q) ==
    IF Len(q) = 1 THEN q[1]
    ELSE LET m == SeqMin(Tail(q)) IN IF NumLt(m, q[1]) THEN m ELSE q[1]

RECURSIVE SeqMax(_)
SeqMax(q) ==
    IF Len(q) = 1 THEN q[1]
    ELSE LET m == SeqMax(Tail(q)) IN IF NumLt(q[1], m) THEN m ELSE q[1]

TornadoEntry(base_valuation, result) ==
    LET valuations == [i \in 1..Len(result.results) |-> result.results[i].equity_value]
        min_valuation == SeqMin(valuations)
        max_valuation == SeqMax(valuations)
        downside_impact == NumAbs(DSub(base_valuation, DecOfFloat(min_valuation)))
        upside_impact == NumAbs(DSub(DecOfFloat(max_valuation), base_valuation))
        total_impact == DAdd(downside_impact, upside_impact)
    IN  [variable_name |-> result.variable_name,
         base_valuation |-> Float(base_valuation),
         min_valuation |-> min_valuation,
         max_valuation |-> max_valuation,
         downside_impact |-> Float(downside_impact),
         upside_impact |-> Float(upside_impact),
         total_impact |-> Float(total_impact)]

\* list.sort(key = total_impact, reverse = True): a stable sort, so entries of
\* equal impact keep their order.  InsertDesc puts x behind every entry whose
\* impact is not smaller.
RECURSIVE InsertDesc(_, _)
InsertDesc(x, q) ==
    IF q = <<>> THEN <<x>>
    ELSE IF NumLt(q[1].total_impact, x.total_impact) THEN <<x>> \o q
    ELSE <<q[1]>> \o InsertDesc(x, Tail(q))

RECURSIVE InsertAsc(_, _)
InsertAsc(x, q) ==
    IF q = <<>> THEN <<x>>
    ELSE IF NumLt(x.total_impact, q[1].total_impact) THEN <<x>> \o q
    ELSE <<q[1]>> \o InsertAsc(x, Tail(q))

\* The sort without reverse = True.
RECURSIVE SortByImpactAscending(_)
SortByImpactAscending(q) ==
    IF q = <<>> THEN <<>>
    ELSE InsertAsc(q[Len(q)], SortByImpactAscending(SubSeq(q, 1, Len(q) - 1)))

RECURSIVE SortByImpact(_)
SortByImpact(q) ==
    IF q = <<>> THEN <<>>
    ELSE InsertDesc(q[Len(q)], SortByImpact(SubSeq(q, 1, Len(q) - 1)))

calculate_tornado_chart_data(base_valuation, sensitivity_results) ==
    IF \E i \in 1..Len(sensitivity_results) : sensitivity_results[i].results = <<>>
    THEN Raise("ValueError")
    ELSE [status |-> "ok",
          tornado_data |->
            SortByImpact([i \in 1..Len(sensitivity_results) |->
                            TornadoEntry(base_valuation, sensitivity_results[i])])]

TornadoVariables == <<"wacc", "growth_rate", "ebitda", "risk_score">>
\* The equity values of a sweep, as perform_analysis reports them (a sweep
\* handed over with no results at all makes min() raise).
TornadoEquities ==
    {<<>>,
     <<Dec(-1, 0), Dec(5, -1), Dec(2, 0)>>,
     <<Dec(2, 0), Dec(5, -1)>>,
     <<Dec(5, -1), Dec(5, -1), Dec(5, -1)>>,
     <<Dec(125, -2), Dec(15, -1), Dec(175, -2)>>,
     <<Dec(5, -1), Dec(25, -1)>>,
     <<Dec(2, 0), Dec(-1, 0)>>}
TornadoBaseVals == {Dec(-1, 0), D0, Dec(15, -1), Dec(1005, -3)}

TornadoCall ==
    /\ pc = "idle"
    /\ \E b \in TornadoBaseVals,
          eqs \in SeqsOf(TornadoEquities, 0, MaxSweeps) :
         LET sweeps == [i \in 1..Len(eqs) |->
                          [variable_name |-> TornadoVariables[i],
                           results |-> [j \in 1..Len(eqs[i]) |->
                                          [equity_value |-> eqs[i][j]]]]]
         IN  /\ args' = [base_valuation |-> b, sensitivity_results |-> sweeps]
             /\ ret' = calculate_tornado_chart_data(b, sweeps)
    /\ op' = "tornado"
    /\ log' = <<>>
    /\ pc' = "done"

(***************************************************************************)
(* Manual forecast (services/forecast/manual_forecast.py).                 *)
(***************************************************************************)
ManualForecastParamsValid(p) ==
    /\ p.projections # <<>>
    /\ \A i \in 1..Len(p.projections) : ~NumLt(p.projections[i].value, D0)

\* (values[i] - values[i-1]) / values[i-1] for i = 2..Len(values), as floats.
GrowthRates(values) ==
    [i \in 1..(Len(values) - 1) |->
        FDiv(FSub(values[i + 1], values[i]), values[i])]

\* A float division by zero raises ZeroDivisionError.
GrowthRatesDefined(values) ==
    \A i \in 1..(Len(values) - 1) : values[i].c # 0

\* Warnings whose threshold also flags a change of exactly 50%.
PlausibilityWarningsInclusive(projections, projected_values, i) ==
    LET growth_rate == FDiv(FSub(projected_values[i + 1], projected_values[i]),
                            projected_values[i])
        extreme == IF NumLe(Dec(5, -1), NumAbs(growth_rate))
                   THEN <<[kind |-> "extreme_growth", year |-> projections[i].year,
                           growth_rate |-> growth_rate]>>
                   ELSE <<>>
        negative == IF NumLt(projected_values[i + 1], D0)
                    THEN <<[kind |-> "negative_value", year |-> projections[i].year]>>
                    ELSE <<>>
    IN  extreme \o negative

\* The warnings of projection i, in the order they are appended.
PlausibilityWarnings(projections, projected_values, i) ==
    LET growth_rate == FDiv(FSub(projected_values[i + 1], projected_values[i]),
                            projected_values[i])
        extreme == IF NumLt(Dec(5, -1), NumAbs(growth_rate))
                   THEN <<[kind |-> "extreme_growth", year |-> projections[i].year,
                           growth_rate |-> growth_rate]>>
                   ELSE <<>>
        negative == IF NumLt(projected_values[i + 1], D0)
                    THEN <<[kind |-> "negative_value", year |-> projections[i].year]>>
                    ELSE <<>>
    IN  extreme \o negative

RECURSIVE AllWarnings(_, _, _)
AllWarnings(projections, projected_values, i) ==
    IF i > Len(projections) THEN <<>>
    ELSE PlausibilityWarnings(projections, projected_values, i)
            \o AllWarnings(projections, projected_values, i + 1)

\* A plausibility check that reports every projection list as plausible.
validate_plausibility_lenient(projections, historical_data) ==
    IF historical_data = <<>>
    THEN [status |-> "ok", is_plausible |-> TRUE,
          warnings |-> <<[kind |-> "no_historical_data"]>>]
    ELSE
    LET historical_values == [i \in 1..Len(historical_data) |-> Float(historical_data[i].value)]
        projected_values == <<historical_values[Len(historical_values)]>>
                              \o [i \in 1..Len(projections) |-> Float(projections[i].value)]
    IN  IF ~GrowthRatesDefined(historical_values) \/ ~GrowthRatesDefined(projected_values)
        THEN Raise("ZeroDivisionError")
        ELSE LET rates == GrowthRates(historical_values)
                 warnings == AllWarnings(projections, projected_values, 1)
             IN  [status |-> "ok",
                  is_plausible |-> TRUE,
                  warnings |-> warnings,
                  historical_avg_growth |->
                     IF rates = <<>> THEN Dec(0, 0) ELSE FMean(rates)]

validate_plausibility(projections, historical_data) ==
    IF historical_data = <<>>
    THEN [status |-> "ok", is_plausible |-> TRUE,
          warnings |-> <<[kind |-> "no_historical_data"]>>]
    ELSE
    LET historical_values == [i \in 1..Len(historical_data) |-> Float(historical_data[i].value)]
        projected_values == <<historical_values[Len(historical_values)]>>
                              \o [i \in 1..Len(projections) |-> Float(projections[i].value)]
    IN  IF ~GrowthRatesDefined(historical_values) \/ ~GrowthRatesDefined(projected_values)
        THEN Raise("ZeroDivisionError")
        ELSE LET rates == GrowthRates(historical_values)
                 warnings == AllWarnings(projections, projected_values, 1)
             IN  [status |-> "ok",
                  is_plausible |-> (warnings = <<>>),
                  warnings |-> warnings,
                  historical_avg_growth |->
                     IF rates = <<>> THEN Dec(0, 0) ELSE FMean(rates)]

confidence_width == Dec(15, -2)

calculate_confidence_intervals(projections) ==
    [i \in 1..Len(projections) |->
        LET value == Float(projections[i].value) IN
        [year |-> projections[i].year,
         predicted_value |-> value,
         lower_bound |-> FMul(value, FSub(D1, confidence_width)),
         upper_bound |-> FMul(value, FAdd(D1, confidence_width))]]

ManualModelMetrics(historical_data) ==
    IF historical_data = <<>> THEN [empty |-> TRUE]
    ELSE LET historical_values == [i \in 1..Len(historical_data) |-> Float(historical_data[i].value)]
             avg_value == FMean(historical_values)
             std_value == FStd(historical_values)
         IN  [historical_avg |-> avg_value,
              historical_std |-> std_value,
              coefficient_of_variation |->
                 IF NumLt(D0, avg_value) THEN FDiv(std_value, avg_value) ELSE Dec(0, 0)]

ManualForecastCalculate(p) ==
    LET validation == validate_plausibility(p.projections, p.historical_data)
    IN  IF validation.status # "ok" THEN Raise(validation.status)
        ELSE [status |-> "ok",
              method |-> "manual",
              predictions |-> calculate_confidence_intervals(p.projections),
              model_parameters |-> [projection_count |-> Len(p.projections),
                                    confidence_width |-> confidence_width],
              model_metrics |-> ManualModelMetrics(p.historical_data),
              validation |-> validation,
              data_quality |-> [data_points |-> Len(p.historical_data),
                                projection_points |-> Len(p.projections)]]

\* ManualForecastParams(...) followed by ManualForecastService.calculate.
ManualForecast(p) ==
    IF ManualForecastParamsValid(p) THEN ManualForecastCalculate(p) ELSE Raise("ValueError")

Scenario(pred, value, name) ==
    [year |-> pred.year, predicted_value |-> value,
     lower_bound |-> pred.lower_bound, upper_bound |-> pred.upper_bound,
     scenario |-> name]

best_case_factor == Dec(120, -2)
worst_case_factor == Dec(80, -2)
volatility_factor == Dec(15, -2)

\* The scenario rule of the statistical models: a premium on the upper bound
\* and a discount on the lower bound.
BoundScenarios(base_predictions) ==
    [status |-> "ok",
     base |-> base_predictions,
     best |-> [i \in 1..Len(base_predictions) |->
                 Scenario(base_predictions[i],
                          FMul(base_predictions[i].upper_bound, FAdd(D1, volatility_factor)),
                          "best")],
     worst |-> [i \in 1..Len(base_predictions) |->
                 Scenario(base_predictions[i],
                          FMul(base_predictions[i].lower_bound, FSub(D1, volatility_factor)),
                          "worst")]]

\* generate_scenarios with the two factors exchanged.
ManualScenariosSwapped(base_predictions) ==
    [status |-> "ok",
     base |-> base_predictions,
     best |-> [i \in 1..Len(base_predictions) |->
                 Scenario(base_predictions[i],
                          FMul(base_predictions[i].predicted_value, worst_case_factor),
                          "best")],
     worst |-> [i \in 1..Len(base_predictions) |->
                 Scenario(base_predictions[i],
                          FMul(base_predictions[i].predicted_value, best_case_factor),
                          "worst")]]

\* ManualForecastService.generate_scenarios with its default factors.
ManualGenerateScenarios(base_predictions) ==
    [status |-> "ok",
     base |-> base_predictions,
     best |-> [i \in 1..Len(base_predictions) |->
                 Scenario(base_predictions[i],
                          FMul(base_predictions[i].predicted_value, best_case_factor),
                          "best")],
     worst |-> [i \in 1..Len(base_predictions) |->
                 Scenario(base_predictions[i],
                          FMul(base_predictions[i].predicted_value, worst_case_factor),
                          "worst")]]

\* ARIMAForecastService.generate_scenarios with its default volatility.
ARIMAGenerateScenarios(base_predictions) == BoundScenarios(base_predictions)

\* ProphetForecastService.generate_scenarios with its default volatility;
\* the trend and seasonal components of a prediction are not copied.
ProphetGenerateScenarios(base_predictions) ==
    BoundScenarios(base_predictions)

ForecastYears == {2025, 2026}
ProjectionVals == {Dec(-1, 0), D0, D1, Dec(105, -2), Dec(3, 0)}
HistoricalVals == {D0, D1, Dec(2, 0)}

ManualForecastCall ==
    /\ pc = "idle"
    /\ \E ys \in SeqsOf(ForecastYears, 0, MaxPreds), hs \in SeqsOf(HistoricalVals, 0, MaxHistory) :
       \E vs \in SeqsOf(ProjectionVals, Len(ys), Len(ys)) :
         LET p == [projections |-> [i \in 1..Len(ys) |-> [year |-> ys[i], value |-> vs[i]]],
                   historical_data |-> [i \in 1..Len(hs) |-> [year |-> 2020 + i, value |-> hs[i]]]]
         IN  /\ args' = p
             /\ ret' = ManualForecast(p)
    /\ op' = "manual_forecast"
    /\ log' = <<>>
    /\ pc' = "done"

\* ManualForecastService.validate_plausibility called on its own: the
\* projections have not passed ManualForecastParams and may be negative.
ValidatePlausibilityCall ==
    /\ pc = "idle"
    /\ \E ys \in SeqsOf(ForecastYears, 0, MaxPreds), hs \in SeqsOf(HistoricalVals, 0, MaxHistory) :
       \E vs \in SeqsOf(ProjectionVals, Len(ys), Len(ys)) :
         LET projections == [i \in 1..Len(ys) |-> [year |-> ys[i], value |-> vs[i]]]
             historical_data == [i \in 1..Len(hs) |-> [year |-> 2020 + i, value |-> hs[i]]]
         IN  /\ args' = [projections |-> projections, historical_data |-> historical_data]
             /\ ret' = validate_plausibility(projections, historical_data)
    /\ op' = "validate_plausibility"
    /\ log' = <<>>
    /\ pc' = "done"

\* Base predictions as a forecast hands them on: predicted value with its
\* bounds, each a float, the bounds enclosing the value.
PredictionShapes ==
    {<<D1, Dec(85, -2), Dec(115, -2)>>,
     <<D0, D0, D0>>,
     <<Dec(-1, 0), Dec(-2, 0), Dec(5, -1)>>,
     <<Dec(-1, 0), Dec(-2, 0), Dec(-9, -1)>>,
     <<Dec(999, -2), Dec(25, -1), Dec(999, -2)>>,
     <<Dec(2, 0), Dec(2, 0), Dec(35, -1)>>}

BasePredictions ==
    {[year |-> y, predicted_value |-> sh[1], lower_bound |-> sh[2], upper_bound |-> sh[3]] :
        y \in ForecastYears, sh \in PredictionShapes}

ManualScenariosCall ==
    /\ pc = "idle"
    /\ \E base \in SeqsOf(BasePredictions, 0, MaxPreds) :
         /\ args' = [base_predictions |-> base]
         /\ ret' = ManualGenerateScenarios(base)
    /\ op' = "manual_scenarios"
    /\ log' = <<>>
    /\ pc' = "done"

ARIMAScenariosCall ==
    /\ pc = "idle"
    /\ \E base \in SeqsOf(BasePredictions, 0, MaxPreds) :
         /\ args' = [base_predictions |-> base]
         /\ ret' = ARIMAGenerateScenarios(base)
    /\ op' = "arima_scenarios"
    /\ log' = <<>>
    /\ pc' = "done"

ProphetScenariosCall ==
    /\ pc = "idle"
    /\ \E base \in SeqsOf(BasePredictions, 0, MaxPreds) :
         /\ args' = [base_predictions |-> base]
         /\ ret' = ProphetGenerateScenarios(base)
    /\ op' = "prophet_scenarios"
    /\ log' = <<>>
    /\ pc' = "done"

(***************************************************************************)
(* ARIMA forecast (services/forecast/arima_forecast.py).                   *)
(*                                                                         *)
(* statsmodels is not part of the repository.  What it answers for the     *)
(* series at hand is an input of the model, the record `lib':              *)
(*   lib.adf        adfuller: "stationary", "nonstationary", or "error"    *)
(*                  when it raises;                                        *)
(*   lib.fits       ARIMA(values, (p, d, q)).fit() for every candidate     *)
(*                  (p, q) of the search: it raises, or it returns a       *)
(*                  fitted model with its aic and bic (floats);            *)
(*   lib.order_fit  the same for an order given by the caller;             *)
(*   lib.forecast   get_forecast and the fitted values: an exception, or   *)
(*                  the predicted value with its bounds and the metrics.   *)
(* A fit is a function of the series and the order, so fitting the         *)
(* selected order again ends as it did during the search.                  *)
(***************************************************************************)
\* A float that is a number, NaN or +inf.
Num(v) == [k |-> "num", v |-> v]
NaN == [k |-> "nan", v |-> 0]
Inf == [k |-> "inf", v |-> 0]

\* a <= b on floats, in place of a < b.
FloatLe(a, b) ==
    /\ a.k # "nan" /\ b.k # "nan"
    /\ b.k = "inf" \/ (a.k = "num" /\ b.k = "num" /\ a.v <= b.v)

\* a < b on floats: false whenever one of them is NaN.
FloatLt(a, b) ==
    /\ a.k = "num"
    /\ b.k = "inf" \/ (b.k = "num" /\ a.v < b.v)

ARIMAForecastParamsValid(p) ==
    /\ p.historical_data # <<>>
    /\ ~(Len(p.historical_data) < 3)
    /\ ~(p.years < 1 \/ p.years > 10)
    /\ ~(NumLe(p.confidence_level, D0) \/ NumLe(D1, p.confidence_level))
    /\ ~(~p.auto_order /\ p.order = None)

max_p == 3
max_q == 3

\* The k-th candidate (k = 0, 1, ...) of
\* for p in range(0, max_p + 1): for q in range(0, max_q + 1).
Candidate(k) == [p |-> k \div (max_q + 1), q |-> k % (max_q + 1)]

NumCandidates == (max_p + 1) * (max_q + 1)

Candidates == {Candidate(k) : k \in 0..(NumCandidates - 1)}

Order(p, d, q) == [p |-> p, d |-> d, q |-> q]

\* d = 0 if stationarity['is_stationary'] else 1.
DifferencingOrder(lib) == IF lib.adf = "stationary" THEN 0 ELSE 1

\* The loop of auto_select_order from candidate k on, with the best AIC and
\* the best order so far; a fit that raises is skipped (except: continue).
RECURSIVE OrderSearch(_, _, _, _)
OrderSearch(lib, k, best_aic, best_order) ==
    IF k >= NumCandidates THEN best_order
    ELSE LET fitted == lib.fits[Candidate(k)]
         IN  IF ~fitted.raised /\ FloatLt(fitted.aic, best_aic)
             THEN OrderSearch(lib, k + 1, fitted.aic,
                              Order(Candidate(k).p, DifferencingOrder(lib), Candidate(k).q))
             ELSE OrderSearch(lib, k + 1, best_aic, best_order)

auto_select_order(lib) ==
    OrderSearch(lib, 0, Inf, Order(1, DifferencingOrder(lib), 1))

FitCall(order) == [call |-> "fit", order |-> order]

\* The search without its try/except: the first fit that raises ends it.
RECURSIVE SearchFitsUntilRaise(_, _)
SearchFitsUntilRaise(lib, k) ==
    IF k >= NumCandidates THEN <<>>
    ELSE IF lib.fits[Candidate(k)].raised
         THEN <<FitCall(Order(Candidate(k).p, DifferencingOrder(lib), Candidate(k).q))>>
    ELSE <<FitCall(Order(Candidate(k).p, DifferencingOrder(lib), Candidate(k).q))>>
            \o SearchFitsUntilRaise(lib, k + 1)

\* The fits auto_select_order makes from candidate k on, in order.
RECURSIVE SearchFits(_, _)
SearchFits(lib, k) ==
    IF k >= NumCandidates THEN <<>>
    ELSE <<FitCall(Order(Candidate(k).p, DifferencingOrder(lib), Candidate(k).q))>>
            \o SearchFits(lib, k + 1)

AdfCall == [call |-> "adfuller", order |-> None]

\* ARIMAForecastService.calculate: its result or exception, and the calls it
\* makes to statsmodels.
ARIMACalculate(p, lib) ==
    IF lib.adf = "error"
    THEN [ret |-> Raise("LibraryError"), log |-> <<AdfCall>>]
    ELSE
    LET order == IF p.auto_order THEN auto_select_order(lib) ELSE p.order
        search == IF p.auto_order THEN <<AdfCall>> \o SearchFits(lib, 0) ELSE <<>>
        fitted_model == IF p.auto_order THEN lib.fits[[p |-> order.p, q |-> order.q]]
                        ELSE lib.order_fit
        calls == <<AdfCall>> \o search \o <<FitCall(order)>>
        base_year == p.historical_data[Len(p.historical_data)].year
    IN  IF fitted_model.raised THEN [ret |-> Raise("FitError"), log |-> calls]
        ELSE IF lib.forecast.raised THEN [ret |-> Raise("LibraryError"), log |-> calls]
        ELSE [ret |->
                [status |-> "ok",
                 method |-> "arima",
                 predictions |->
                    [i \in 1..p.years |->
                        [year |-> base_year + i,
                         predicted_value |-> lib.forecast.predicted_mean,
                         lower_bound |-> lib.forecast.conf_int[1],
                         upper_bound |-> lib.forecast.conf_int[2]]],
                 model_parameters |->
                    [order |-> order, p |-> order.p, d |-> order.d, q |-> order.q,
                     aic |-> fitted_model.aic, bic |-> fitted_model.bic,
                     confidence_level |-> Float(p.confidence_level)],
                 model_metrics |-> [mape |-> lib.forecast.mape,
                                    rmse |-> lib.forecast.rmse,
                                    mae |-> lib.forecast.mae],
                 stationarity_test |-> [is_stationary |-> (lib.adf = "stationary")],
                 data_quality |-> [data_points |-> Len(p.historical_data),
                                   missing_values |-> 0]],
              log |-> calls]

\* ARIMAForecastParams(...) followed by ARIMAForecastService.calculate.
ARIMAForecast(p, lib) ==
    IF ARIMAForecastParamsValid(p) THEN ARIMACalculate(p, lib)
    ELSE [ret |-> Raise("ValueError"), log |-> <<>>]

\* What a fit answers.
Raised == [raised |-> TRUE, aic |-> NaN, bic |-> NaN]
Fitted(aic) == [raised |-> FALSE, aic |-> aic, bic |-> aic]

AicVals == {Num(1), Num(2), NaN, Inf}

\* Candidates whose fit is varied individually.
CandidatePool == {Candidate(0), Candidate(1), Candidate(5), Candidate(6), Candidate(15)}

\* AIC tables of a series all of whose candidates converge: all equal, growing
\* and falling along the search.
AicTables ==
    {[c \in Candidates |-> Num(1)],
     [c \in Candidates |-> Num(4 * c.p + c.q)],
     [c \in Candidates |-> Num(15 - 4 * c.p - c.q)],
     [c \in Candidates |-> Num((c.p - 2) * (c.p - 2) + (c.q - 1) * (c.q - 1))]}

FitTables ==
    \* at most two candidates converge, with any AIC
    {[c \in Candidates |-> IF c = g1 THEN Fitted(a1) ELSE IF c = g2 THEN Fitted(a2) ELSE Raised] :
        g1 \in CandidatePool, g2 \in CandidatePool, a1 \in AicVals, a2 \in AicVals}
    \cup {[c \in Candidates |-> Raised]}
    \* all but at most two candidates converge
    \cup {[c \in Candidates |-> IF c \in {b1, b2} THEN Raised ELSE Fitted(t[c])] :
            b1 \in CandidatePool, b2 \in CandidatePool, t \in AicTables}
    \cup {[c \in Candidates |-> Fitted(t[c])] : t \in AicTables}

\* Every pattern of failing fits, the other candidates converging.
FailurePatterns ==
    {[c \in Candidates |-> IF c \in F THEN Raised ELSE Fitted(Num(1))] :
        F \in SUBSET Candidates}

ForecastOutcomes ==
    {[raised |-> TRUE, predicted_mean |-> D0, conf_int |-> <<D0, D0>>,
      mape |-> D0, rmse |-> D0, mae |-> D0],
     [raised |-> FALSE, predicted_mean |-> D1, conf_int |-> <<Dec(85, -2), Dec(115, -2)>>,
      mape |-> Dec(5, 0), rmse |-> Dec(5, -1), mae |-> Dec(25, -2)]}

\* The answers of statsmodels that the calculation can meet.  The fits of the
\* search are varied for one parameter object; the answers do not depend on
\* the horizon, the confidence level or an order that is not used.
ARIMALibs(p) ==
    IF p.auto_order /\ p.order = None /\ p.years = 1 /\ p.confidence_level = Dec(95, -2)
    THEN {[adf |-> a, fits |-> f, order_fit |-> Raised, forecast |-> fc] :
            a \in {"stationary", "nonstationary"}, f \in FitTables, fc \in ForecastOutcomes}
         \cup {[adf |-> "nonstationary", fits |-> f, order_fit |-> Raised,
                forecast |-> fc] :
                 f \in FailurePatterns, fc \in {o \in ForecastOutcomes : ~o.raised}}
         \cup {[adf |-> "error", fits |-> [c \in Candidates |-> Raised],
                order_fit |-> Raised, forecast |-> fc] :
                 fc \in {o \in ForecastOutcomes : o.raised}}
    ELSE IF p.auto_order
    THEN {[adf |-> a, fits |-> [c \in Candidates |-> Fitted(t[c])], order_fit |-> Raised,
           forecast |-> fc] :
            a \in {"stationary", "nonstationary"}, t \in AicTables, fc \in ForecastOutcomes}
    ELSE {[adf |-> a, fits |-> [c \in Candidates |-> Raised], order_fit |-> o,
           forecast |-> fc] :
            a \in {"stationary", "nonstationary", "error"},
            o \in {Raised, Fitted(Num(1))}, fc \in ForecastOutcomes}

\* No call to the library is made.
NoLib == [none |-> TRUE]

\* A historical series of n points, ending in 2020 + n.
HistorySeries(n) ==
    [i \in 1..n |-> [year |-> 2020 + i, value |-> IF i = 1 THEN D1 ELSE Dec(2, 0)]]

HistoryLengths == {0, 2, 3}
HorizonVals == {0, 1, 2, 10, 11}
ConfidenceVals == {D0, Dec(5, -1), Dec(95, -2), D1}
OrderVals == {None, Order(1, 0, 1), Order(2, 1, 0)}

\* Parameter objects that differ in one respect from a valid one.
ForecastParamSet ==
    {[historical_data |-> HistorySeries(n), years |-> y, confidence_level |-> c] :
        n \in HistoryLengths, y \in {1, 2}, c \in {Dec(95, -2)}}
    \cup {[historical_data |-> HistorySeries(3), years |-> y, confidence_level |-> c] :
            y \in HorizonVals, c \in ConfidenceVals}

ARIMAForecastCall ==
    /\ pc = "idle"
    /\ \E fp \in ForecastParamSet, ao \in BOOLEAN, o \in OrderVals :
         LET p == [historical_data |-> fp.historical_data, years |-> fp.years,
                   confidence_level |-> fp.confidence_level,
                   auto_order |-> ao, order |-> o]
         IN  \E lib \in (IF ARIMAForecastParamsValid(p) THEN ARIMALibs(p) ELSE {NoLib}) :
             \E out \in {ARIMAForecast(p, lib)} :
               /\ args' = [params |-> p, lib |-> lib]
               /\ ret' = out.ret
               /\ log' = out.log
    /\ op' = "arima_forecast"
    /\ pc' = "done"

(***************************************************************************)
(* Prophet forecast (services/forecast/prophet_forecast.py).  What the     *)
(* prophet library answers is the input `lib': it raises, or it predicts   *)
(* a value with its bounds, trend and seasonal component for the year-ends *)
(* that follow the last historical year.                                   *)
(***************************************************************************)
\* The validation without its check of the confidence level.
ProphetForecastParamsValidNoConfidence(p) ==
    /\ p.historical_data # <<>>
    /\ ~(Len(p.historical_data) < 3)
    /\ ~(p.years < 1 \/ p.years > 10)

ProphetForecastParamsValid(p) ==
    /\ p.historical_data # <<>>
    /\ ~(Len(p.historical_data) < 3)
    /\ ~(p.years < 1 \/ p.years > 10)
    /\ ~(NumLe(p.confidence_level, D0) \/ NumLe(D1, p.confidence_level))

ProphetCalculate(p, lib) ==
    IF lib.raised THEN Raise("LibraryError")
    ELSE [status |-> "ok",
          method |-> "prophet",
          predictions |->
             [i \in 1..p.years |->
                 [year |-> p.historical_data[Len(p.historical_data)].year + i,
                  predicted_value |-> lib.yhat,
                  lower_bound |-> lib.yhat_lower,
                  upper_bound |-> lib.yhat_upper,
                  trend |-> lib.trend,
                  seasonal |-> lib.yearly]],
          model_parameters |->
             [changepoint_prior_scale |-> Float(p.changepoint_prior_scale),
              seasonality_mode |-> p.seasonality_mode,
              yearly_seasonality |-> p.yearly_seasonality,
              confidence_level |-> Float(p.confidence_level)],
          model_metrics |-> [mape |-> lib.mape, rmse |-> lib.rmse, mae |-> lib.mae,
                             outlier_count |-> lib.outlier_count],
          data_quality |-> [data_points |-> Len(p.historical_data),
                            outliers_detected |-> lib.outlier_count,
                            missing_values |-> 0]]

\* ProphetForecastParams(...) followed by ProphetForecastService.calculate.
ProphetForecast(p, lib) ==
    IF ProphetForecastParamsValid(p) THEN ProphetCalculate(p, lib)
    ELSE Raise("ValueError")

ProphetLibs ==
    {[raised |-> r, yhat |-> y, yhat_lower |-> Dec(85, -2),
      yhat_upper |-> Dec(115, -2), trend |-> D1, yearly |-> s,
      mape |-> Dec(5, 0), rmse |-> Dec(5, -1), mae |-> Dec(25, -2),
      outlier_count |-> oc] :
        r \in BOOLEAN, y \in {D1, Dec(105, -2)},
        s \in {D0, Dec(1, -1)}, oc \in {0, 1}}

SeasonalityModes == {"additive", "multiplicative"}

ProphetForecastCall ==
    /\ pc = "idle"
    /\ \E fp \in ForecastParamSet, sm \in SeasonalityModes, ys \in BOOLEAN :
         LET p == [historical_data |-> fp.historical_data, years |-> fp.years,
                   confidence_level |-> fp.confidence_level,
                   changepoint_prior_scale |-> Dec(5, -2),
                   seasonality_mode |-> sm, yearly_seasonality |-> ys]
         IN  \E lib \in (IF ProphetForecastParamsValid(p) THEN ProphetLibs ELSE {NoLib}) :
               /\ args' = [params |-> p, lib |-> lib]
               /\ ret' = ProphetForecast(p, lib)
    /\ op' = "prophet_forecast"
    /\ log' = <<>>
    /\ pc' = "done"

(***************************************************************************)
(* Valuation endpoint (api/v1/endpoints/valuations.py).                    *)
(***************************************************************************)
\* Decimal(str(parameters[k])) of a JSON number.
DecStr(parameters, k) == DecOfFloat(parameters[k])

\* Decimal(str(parameters.get(k, default))).
DecStrGet(parameters, k, default) ==
    IF k \in DOMAIN parameters THEN DecOfFloat(parameters[k]) ELSE default

\* Decimal(str(parameters[k])) / Decimal("100"): a percentage as a ratio.
Percent(parameters, k) == DDiv(DecStr(parameters, k), D100)

RequiredKeys(method) ==
    CASE method = "ebitda_multiple" ->
            {"ebitda", "base_multiple", "growth_rate", "risk_score", "company_size"}
      [] method = "dcf" -> {"fcf_projections", "wacc", "terminal_growth_rate"}
      [] method = "earnings_value" -> {"historical_earnings", "risk_free_rate", "risk_premium"}
      [] method = "asset_value" ->
            {"real_estate_market_value", "machinery_replacement_value",
             "machinery_depreciation", "inventory_value", "receivables",
             "receivables_risk", "cash", "intangible_assets", "liabilities"}
      [] method = "practitioner" -> {"earnings_value", "asset_value"}
      [] OTHER -> {}

\* The parameter object each branch of calculate_valuation_method builds.
EBITDAParamsOf(parameters) ==
    [ebitda |-> DecStr(parameters, "ebitda"),
     base_multiple |-> DecStr(parameters, "base_multiple"),
     growth_rate |-> DecStr(parameters, "growth_rate"),
     risk_score |-> parameters["risk_score"],
     company_size |-> parameters["company_size"],
     cash |-> DecStrGet(parameters, "cash", Dec(0, 0)),
     debt |-> DecStrGet(parameters, "debt", Dec(0, 0)),
     non_operating_assets |-> DecStrGet(parameters, "non_operating_assets", Dec(0, 0))]

DCFParamsOf(parameters) ==
    [fcf_projections |->
        [i \in 1..Len(parameters["fcf_projections"]) |->
            DecOfFloat(parameters["fcf_projections"][i])],
     wacc |-> Percent(parameters, "wacc"),
     terminal_growth_rate |-> Percent(parameters, "terminal_growth_rate"),
     cash |-> DecStrGet(parameters, "cash", Dec(0, 0)),
     debt |-> DecStrGet(parameters, "debt", Dec(0, 0)),
     non_operating_assets |-> DecStrGet(parameters, "non_operating_assets", Dec(0, 0))]

EarningsValueParamsOf(parameters) ==
    [historical_earnings |->
        [i \in 1..Len(parameters["historical_earnings"]) |->
            DecOfFloat(parameters["historical_earnings"][i])],
     risk_free_rate |-> Percent(parameters, "risk_free_rate"),
     risk_premium |-> Percent(parameters, "risk_premium"),
     use_practitioner_method |->
         IF "use_practitioner_method" \in DOMAIN parameters
         THEN parameters["use_practitioner_method"] ELSE FALSE,
     asset_value |->
         IF "asset_value" \in DOMAIN parameters /\ parameters["asset_value"].c # 0
         THEN DecStr(parameters, "asset_value") ELSE None]

AssetValueParamsOf(parameters) ==
    [k \in RequiredKeys("asset_value") |-> DecStr(parameters, k)]

PractitionerParamsOf(parameters) ==
    [earnings_value |-> DecStr(parameters, "earnings_value"),
     asset_value |-> DecStr(parameters, "asset_value"),
     earnings_weight |-> DecStrGet(parameters, "earnings_weight", Dec(67, -2))]

\* Each branch builds the parameter object once and hands it to the service.
calculate_valuation_method(method, parameters) ==
    IF ~(RequiredKeys(method) \subseteq DOMAIN parameters) THEN Raise("KeyError")
    ELSE
    CASE method = "ebitda_multiple" ->
            IF parameters["company_size"] \notin CompanySizes THEN Raise("ValueError")
            ELSE CHOOSE r \in {EBITDAMultiple(p) : p \in {EBITDAParamsOf(parameters)}} : TRUE
      [] method = "dcf" ->
            CHOOSE r \in {DCF(p) : p \in {DCFParamsOf(parameters)}} : TRUE
      [] method = "earnings_value" ->
            CHOOSE r \in {EarningsValue(p) : p \in {EarningsValueParamsOf(parameters)}} : TRUE
      [] method = "asset_value" ->
            CHOOSE r \in {AssetValue(p) : p \in {AssetValueParamsOf(parameters)}} : TRUE
      [] method = "practitioner" ->
            CHOOSE r \in {Practitioner(p) : p \in {PractitionerParamsOf(parameters)}} : TRUE
      [] OTHER -> Raise("ValueError")

\* The dictionary create_valuation keeps of one calculated method.
MethodResult(method_request, result) ==
    [method |-> method_request.method,
     calculated_value |-> result.calculated_value,
     enterprise_value |-> DictGet(result, "enterprise_value"),
     equity_value |-> IF "equity_value" \in DOMAIN result THEN result.equity_value
                      ELSE result.calculated_value,
     weight |-> Float(method_request.weight),
     details |-> result.details]

\* Position of the first element of q equal to x: list.index.
ListIndex(q, x) == CHOOSE i \in 1..Len(q) : q[i] = x /\ \A j \in 1..(i - 1) : q[j] # x

\* result["weight"] / float(total_weight), when total_weight > 0.
NormalizedWeight(weight, total_weight) ==
    IF NumLt(D0, total_weight) THEN FDiv(weight, Float(total_weight)) ELSE weight

\* sum(Decimal(str(calculated_value)) * Decimal(str(weight)) for ...).
RECURSIVE WeightedSum(_)
WeightedSum(method_results) ==
    IF method_results = <<>> THEN Dec(0, 0)
    ELSE LET n == Len(method_results) IN
         DAdd(WeightedSum(SubSeq(method_results, 1, n - 1)),
              DMul(DecOfFloat(method_results[n].calculated_value),
                   DecOfFloat(method_results[n].weight)))

\* The second half of create_valuation: blending and storing the results.
StoreValuation(request, method_results) ==
    LET n == Len(method_results)
        final_value == WeightedSum(method_results)
        final_value_min == DMul(final_value, Dec(85, -2))
        final_value_max == DMul(final_value, Dec(115, -2))
        valuation == [table |-> "valuations",
                      company_id |-> request.company_id,
                      name |-> request.name,
                      status |-> "completed",
                      final_value |-> final_value,
                      final_value_min |-> final_value_min,
                      final_value_max |-> final_value_max]
        rows == [i \in 1..n |->
                    [table |-> "valuation_method_results",
                     method |-> method_results[i].method,
                     parameters |->
                        request.methods[ListIndex(method_results, method_results[i])].parameters,
                     calculated_value |-> DecOfFloat(method_results[i].calculated_value),
                     weight |-> DecOfFloat(method_results[i].weight),
                     details |-> method_results[i].details]]
    IN  IF request.company_id # "uuid"
        THEN [ret |-> Raise("ValueError"), log |-> <<>>]
        ELSE [ret |-> [status |-> "ok",
                       company_id |-> request.company_id,
                       name |-> request.name,
                       final_value |-> Float(final_value),
                       final_value_min |-> Float(final_value_min),
                       final_value_max |-> Float(final_value_max),
                       method_results |-> method_results],
              log |-> <<valuation>> \o rows \o <<[table |-> "commit"]>>]

\* The method results with their weights normalised.
NormalizedResults(request, calc) ==
    LET n == Len(request.methods)
        total_weight == DSum([i \in 1..n |-> request.methods[i].weight])
    IN  [i \in 1..n |->
            [MethodResult(request.methods[i], calc[i])
                EXCEPT !.weight = NormalizedWeight(Float(request.methods[i].weight),
                                                   total_weight)]]

\* A create_valuation that adds the valuation before the methods are calculated.
BlendResultsValuationFirst(request, calc) ==
    IF \E i \in 1..Len(calc) : calc[i].status # "ok"
    THEN [ret |-> [status |-> "HTTPException", status_code |-> 400],
          log |-> <<[table |-> "valuations", company_id |-> request.company_id]>>]
    ELSE CHOOSE out \in {StoreValuation(request, mr) :
                            mr \in {NormalizedResults(request, calc)}} : TRUE

\* calc: what calculate_valuation_method returned or raised for each request.
BlendResults(request, calc) ==
    IF \E i \in 1..Len(calc) : calc[i].status # "ok"
    THEN [ret |-> [status |-> "HTTPException", status_code |-> 400], log |-> <<>>]
    ELSE CHOOSE out \in {StoreValuation(request, mr) :
                            mr \in {NormalizedResults(request, calc)}} : TRUE

create_valuation(request) ==
    CHOOSE out \in
        {BlendResults(request, calc) :
            calc \in {[i \in 1..Len(request.methods) |->
                         calculate_valuation_method(request.methods[i].method,
                                                    request.methods[i].parameters)]}} : TRUE

ZeroAssets ==
    [k \in RequiredKeys("asset_value") |-> Dec(0, 0)]

\* Method requests: a method with its JSON parameters.
MethodRequests ==
    {[method |-> "practitioner",
      parameters |-> [earnings_value |-> Dec(2, 0), asset_value |-> D1]],
     [method |-> "practitioner",
      parameters |-> [earnings_value |-> Dec(2, 0)]],
     [method |-> "asset_value",
      parameters |-> [ZeroAssets EXCEPT !["machinery_replacement_value"] = D1,
                                        !["liabilities"] = Dec(2, 0)]],
     [method |-> "ebitda_multiple",
      parameters |-> [ebitda |-> Dec(15, -1), base_multiple |-> Dec(3, 0),
                      growth_rate |-> D0, risk_score |-> 1, company_size |-> "medium"]],
     [method |-> "ebitda_multiple",
      parameters |-> [ebitda |-> Dec(15, -1), base_multiple |-> Dec(3, 0),
                      growth_rate |-> D0, risk_score |-> 0, company_size |-> "medium"]],
     [method |-> "dcf",
      parameters |-> [fcf_projections |-> <<D1>>, wacc |-> Dec(50, 0),
                      terminal_growth_rate |-> D0, debt |-> Dec(5, -1)]],
     [method |-> "earnings_value",
      parameters |-> [historical_earnings |-> <<Dec(1, -2), Dec(1, -2), Dec(1, -2)>>,
                      risk_free_rate |-> Dec(20, 0), risk_premium |-> Dec(30, 0)]]}

\* Weights the request schema admits (0 <= weight <= 1).
RequestWeights == {D0, Dec(5, -1), D1}
CompanyIds == {"uuid", "not-a-uuid"}

CreateValuationCall ==
    /\ pc = "idle"
    /\ \E ms \in SeqsOf(MethodRequests, 1, MaxMethods), cid \in CompanyIds :
       \E ws \in SeqsOf(RequestWeights, Len(ms), Len(ms)) :
         LET request == [company_id |-> cid, name |-> "valuation",
                         methods |-> [i \in 1..Len(ms) |->
                                        [method |-> ms[i].method,
                                         parameters |-> ms[i].parameters,
                                         weight |-> ws[i]]]]
         IN  \E out \in {create_valuation(request)} :
               /\ args' = request
               /\ ret' = out.ret
               /\ log' = out.log
    /\ op' = "create_valuation"
    /\ pc' = "done"

(***************************************************************************)
(* The request slot.                                                       *)
(***************************************************************************)
Init ==
    /\ pc = "idle"
    /\ op = "none"
    /\ args = NoArgs
    /\ ret = NoRet
    /\ log = <<>>

Return ==
    /\ pc = "done"
    /\ pc' = "idle"
    /\ op' = "none"
    /\ args' = NoArgs
    /\ ret' = NoRet
    /\ log' = <<>>

Next ==
    \/ PractitionerCall
    \/ EBITDAMultipleCall
    \/ GrowthFactorCall
    \/ AssetValueCall
    \/ DCFCall
    \/ EarningsValueCall
    \/ PerformAnalysisCall
    \/ TornadoCall
    \/ ManualForecastCall
    \/ ValidatePlausibilityCall
    \/ ManualScenariosCall
    \/ ARIMAScenariosCall
    \/ ProphetScenariosCall
    \/ ARIMAForecastCall
    \/ ProphetForecastCall
    \/ CreateValuationCall
    \/ Return

Spec == Init /\ [][Next]_vars

(***************************************************************************)
(* Claims.                                                                 *)
(***************************************************************************)
Done(o) == pc = "done" /\ op = o /\ ret.status = "ok"

\* C4: for every validly constructed EBITDAMultipleParams the reported
\* (2-decimal) values satisfy
\* equity_value = enterprise_value + cash - debt + non_operating_assets exactly.
C4_BridgeExact ==
    Done("ebitda_multiple") =>
        NumEq(ret.equity_value,
              AddX(SubX(AddX(ret.enterprise_value, args.cash), args.debt),
                   args.non_operating_assets))

\* C5: in every asset-value result the reported net_asset_value equals the
\* reported total_assets minus the reported liabilities, and the reported
\* total_assets equals fixed_assets.total plus current_assets.total.
C5_DetailsRecompute ==
    Done("asset_value") =>
        /\ NumEq(ret.details.net_asset_value,
                 SubX(ret.details.total_assets, ret.details.liabilities))
        /\ NumEq(ret.details.total_assets,
                 AddX(ret.details.fixed_assets.total, ret.details.current_assets.total))

\* C6 as stated: with earnings_weight = 1 the practitioner result equals
\* earnings_value, and with earnings_weight = 0 it equals asset_value, for
\* every earnings_value and asset_value.
C6_ExactEndPoints ==
    Done("practitioner") =>
        /\ NumEq(args.earnings_weight, D1)
              => NumEq(ret.calculated_value, args.earnings_value)
        /\ NumEq(args.earnings_weight, D0)
              => NumEq(ret.calculated_value, args.asset_value)

\* C6 amended: with earnings_weight = 1 the practitioner result equals
\* earnings_value rounded half-even to 2 decimals, and with earnings_weight = 0
\* it equals asset_value rounded half-even to 2 decimals; so the end point is
\* exact for a value that has at most 2 decimal places.
C6_RoundedEndPoints ==
    Done("practitioner") =>
        /\ NumEq(args.earnings_weight, D1)
              => /\ NumEq(ret.calculated_value, Quantize2(args.earnings_value))
                 /\ Decimals(args.earnings_value) <= 2
                       => NumEq(ret.calculated_value, args.earnings_value)
        /\ NumEq(args.earnings_weight, D0)
              => /\ NumEq(ret.calculated_value, Quantize2(args.asset_value))
                 /\ Decimals(args.asset_value) <= 2
                       => NumEq(ret.calculated_value, args.asset_value)

\* C6 witness: an end-point blend of a value with more than 2 decimals.
C6_Witness ==
    /\ Done("practitioner")
    /\ NumEq(args.earnings_weight, D1)
    /\ Decimals(args.earnings_value) > 2
    /\ ~NumEq(args.asset_value, D0)

AllFcfPositive(p) ==
    \A t \in 1..Len(p.fcf_projections) : NumLt(D0, p.fcf_projections[t])

\* C10 as stated: for every valid DCFParams whose FCF projections are all
\* strictly positive, the reported enterprise_value is strictly positive.
C10_EnterprisePositive ==
    (Done("dcf") /\ AllFcfPositive(args)) => NumLt(D0, ret.enterprise_value)

\* C10 amended: for every valid DCFParams whose FCF projections are all
\* strictly positive, the reported enterprise_value is non-negative, and it
\* is strictly positive whenever the unrounded enterprise value exceeds 0.005
\* (a smaller one is rounded to 0.00).
C10_EnterpriseNonNegative ==
    (Done("dcf") /\ AllFcfPositive(args)) =>
        /\ NumLe(D0, ret.enterprise_value)
        /\ NumLt(Dec(5, -3), DCFEnterpriseValue(args))
              => NumLt(D0, ret.enterprise_value)

\* C10 witness: a DCF over the longest projection list, all FCFs positive,
\* with a positive terminal growth rate.
C10_Witness ==
    /\ Done("dcf")
    /\ AllFcfPositive(args)
    /\ Len(args.fcf_projections) = MaxFcf
    /\ NumLt(D0, args.terminal_growth_rate)
    /\ NumLt(D0, ret.enterprise_value)


\* The variable values a sweep reports, in order.
SweepValues == [i \in 1..Len(ret.results) |-> ret.results[i].variable_value]

\* C7 (as stated): a sweep has steps + 1 points whose variable values are
\* strictly increasing, consecutive values differing by exactly
\* (max_value - min_value) / steps.
C7_ExactSpacing ==
    Done("perform_analysis") =>
        /\ Len(ret.results) = args.params.steps + 1
        /\ \A i \in 1..(Len(ret.results) - 1) :
             /\ NumLt(SweepValues[i], SweepValues[i + 1])
             /\ NumEq(SubX(SweepValues[i + 1], SweepValues[i]),
                      step_size(args.params))

\* Twice the relative precision of the reported (float) values, times the
\* larger magnitude of the two ends of the range.
SpacingTolerance(sp) ==
    LET m == IF NumLt(NumAbs(sp.min_value), NumAbs(sp.max_value))
             THEN NumAbs(sp.max_value) ELSE NumAbs(sp.min_value)
    IN  MulX(m, Dec(2, 1 - FloatDigits))

\* C7 (amended): a sweep has steps + 1 points; the variable values never
\* decrease, and steps times the difference of consecutive values is within
\* steps times the rounding tolerance of max_value - min_value.
C7_SpacingUpToRounding ==
    Done("perform_analysis") =>
        /\ Len(ret.results) = args.params.steps + 1
        /\ \A i \in 1..(Len(ret.results) - 1) :
             /\ NumLe(SweepValues[i], SweepValues[i + 1])
             /\ NumLe(NumAbs(SubX(MulX(Int2Dec(args.params.steps),
                                       SubX(SweepValues[i + 1], SweepValues[i])),
                                  SubX(args.params.max_value, args.params.min_value))),
                      MulX(Int2Dec(args.params.steps), SpacingTolerance(args.params)))

\* A sweep over a range that does not divide evenly: three steps from 0 to 1.
C7_Witness ==
    /\ Done("perform_analysis")
    /\ args.params.steps = 3
    /\ NumEq(args.params.min_value, D0)
    /\ NumEq(args.params.max_value, D1)
    /\ ~NumEq(SubX(SweepValues[3], SweepValues[2]), step_size(args.params))

\* C8 (as stated): the tornado entries are in non-increasing order of
\* total_impact, and in every entry total_impact = downside_impact +
\* upside_impact, downside_impact = |base - min| and upside_impact =
\* |max - base|, on the values reported.
C8_TornadoExact ==
    Done("tornado") =>
        /\ \A i \in 1..(Len(ret.tornado_data) - 1) :
             NumLe(ret.tornado_data[i + 1].total_impact, ret.tornado_data[i].total_impact)
        /\ \A i \in 1..Len(ret.tornado_data) :
             LET e == ret.tornado_data[i] IN
             /\ NumEq(e.total_impact, AddX(e.downside_impact, e.upside_impact))
             /\ NumEq(e.downside_impact, NumAbs(SubX(e.base_valuation, e.min_valuation)))
             /\ NumEq(e.upside_impact, NumAbs(SubX(e.max_valuation, e.base_valuation)))

\* The equity values of the sweep of variable v, as a set.
EquitiesOf(v) ==
    LET sw == CHOOSE j \in 1..Len(args.sensitivity_results) :
                 args.sensitivity_results[j].variable_name = v
    IN  {args.sensitivity_results[sw].results[k].equity_value :
            k \in 1..Len(args.sensitivity_results[sw].results)}

LeastOf(S) == CHOOSE m \in S : \A x \in S : NumLe(m, x)
GreatestOf(S) == CHOOSE m \in S : \A x \in S : NumLe(x, m)

\* C8 (amended): there is one entry per sweep, in non-increasing order of
\* total_impact; the impacts reported are the floats of d = |base - min|,
\* u = |max - base| and d + u, so that total_impact differs from
\* downside_impact + upside_impact by no more than the float rounding of the
\* three (twice the relative float precision times d + u).
C8_TornadoUpToRounding ==
    Done("tornado") =>
        /\ Len(ret.tornado_data) = Len(args.sensitivity_results)
        /\ \A i \in 1..(Len(ret.tornado_data) - 1) :
             NumLe(ret.tornado_data[i + 1].total_impact, ret.tornado_data[i].total_impact)
        /\ \A i \in 1..Len(ret.tornado_data) :
             LET e == ret.tornado_data[i]
                 d == NumAbs(SubX(args.base_valuation, LeastOf(EquitiesOf(e.variable_name))))
                 u == NumAbs(SubX(GreatestOf(EquitiesOf(e.variable_name)), args.base_valuation))
             IN  /\ NumEq(e.downside_impact, Float(d))
                 /\ NumEq(e.upside_impact, Float(u))
                 /\ NumEq(e.total_impact, Float(AddX(d, u)))
                 /\ NumLe(NumAbs(SubX(e.total_impact,
                                      AddX(e.downside_impact, e.upside_impact))),
                          MulX(AddX(d, u), Dec(2, 1 - FloatDigits)))

\* Two sweeps given in increasing order of impact, so that sorting moves them,
\* the first entry with impacts that the floats cannot add up exactly.
C8_Witness ==
    /\ Done("tornado")
    /\ Len(ret.tornado_data) = 2
    /\ ret.tornado_data[1].variable_name = TornadoVariables[2]
    /\ NumLt(ret.tornado_data[2].total_impact, ret.tornado_data[1].total_impact)
    /\ NumLt(ret.tornado_data[1].min_valuation, ret.tornado_data[1].base_valuation)
    /\ ~NumEq(ret.tornado_data[1].total_impact,
              AddX(ret.tornado_data[1].downside_impact, ret.tornado_data[1].upside_impact))

WithinBounds(pred) ==
    /\ NumLe(pred.lower_bound, pred.predicted_value)
    /\ NumLe(pred.predicted_value, pred.upper_bound)

AllWithinBounds(preds) == \A i \in 1..Len(preds) : WithinBounds(preds[i])

ScenarioOps == {"manual_scenarios", "arima_scenarios", "prophet_scenarios"}

\* C1: every prediction satisfies lower_bound <= predicted_value <=
\* upper_bound: the base predictions a manual forecast calculates, and the best
\* and worst predictions generate_scenarios derives from base predictions
\* that satisfy it.
C1_PredictionsWithinBounds ==
    /\ Done("manual_forecast") => AllWithinBounds(ret.predictions)
    /\ (pc = "done" /\ op \in ScenarioOps /\ AllWithinBounds(args.base_predictions)) =>
          /\ AllWithinBounds(ret.best)
          /\ AllWithinBounds(ret.worst)

\* C9: the manual scenarios keep the base list as it was given and derive from
\* each base prediction, in order, a best prediction of 1.20 times and a worst
\* prediction of 0.80 times its value (float products), with the year and the
\* bounds of the base prediction.
C9_ManualScenarioFactors ==
    Done("manual_scenarios") =>
        LET base == args.base_predictions IN
        /\ ret.base = base
        /\ Len(ret.best) = Len(base)
        /\ Len(ret.worst) = Len(base)
        /\ \A i \in 1..Len(base) :
             /\ NumEq(ret.best[i].predicted_value,
                      Float(MulX(base[i].predicted_value, Dec(120, -2))))
             /\ NumEq(ret.worst[i].predicted_value,
                      Float(MulX(base[i].predicted_value, Dec(80, -2))))
             /\ \A sc \in {ret.best[i], ret.worst[i]} :
                  /\ sc.year = base[i].year
                  /\ sc.lower_bound = base[i].lower_bound
                  /\ sc.upper_bound = base[i].upper_bound

\* Two base predictions of different years and values, the first with bounds
\* that the scaled values leave.
C9_Witness ==
    /\ Done("manual_scenarios")
    /\ Len(args.base_predictions) = 2
    /\ args.base_predictions[1].year > args.base_predictions[2].year
    /\ NumEq(args.base_predictions[1].predicted_value, D1)
    /\ NumEq(ret.best[1].predicted_value, Dec(12, -1))
    /\ NumEq(ret.worst[1].predicted_value, Dec(8, -1))
    /\ NumLt(args.base_predictions[2].predicted_value, D0)


\* C2: the valuation create_valuation stores satisfies final_value_min <=
\* final_value <= final_value_max, whatever the method results and weights
\* (negative and zero calculated values included).
C2_FinalValueRange ==
    Done("create_valuation") =>
        /\ NumLe(log[1].final_value_min, log[1].final_value)
        /\ NumLe(log[1].final_value, log[1].final_value_max)

\* The weights create_valuation multiplies the calculated values with, and
\* stores with the method results.
UsedWeights == [i \in 1..Len(ret.method_results) |-> DecOfFloat(ret.method_results[i].weight)]

RECURSIVE SumX(_)
SumX(q) == IF q = <<>> THEN D0 ELSE AddX(q[1], SumX(Tail(q)))

\* C3: for a non-empty request whose weights lie in [0, 1], the weights used in
\* the blend lie in [0, 1] and sum to 1.
C3_WeightsNormalized ==
    Done("create_valuation") =>
        /\ \A i \in 1..Len(UsedWeights) :
             NumLe(D0, UsedWeights[i]) /\ NumLe(UsedWeights[i], D1)
        /\ NumEq(SumX(UsedWeights), D1)

ValuationOps == {"practitioner", "ebitda_multiple", "asset_value", "dcf", "earnings_value"}

RangeOf(q) == {q[i] : i \in 1..Len(q)}

\* The monetary amounts among the parameters of the calculation at hand.
MonetaryInputs ==
    CASE op = "practitioner" -> {args.earnings_value, args.asset_value}
      [] op = "ebitda_multiple" ->
            {args.ebitda, args.cash, args.debt, args.non_operating_assets}
      [] op = "asset_value" ->
            {args.real_estate_market_value, args.machinery_replacement_value,
             args.inventory_value, args.receivables, args.cash,
             args.intangible_assets, args.liabilities}
      [] op = "dcf" ->
            RangeOf(args.fcf_projections)
                \cup {args.cash, args.debt, args.non_operating_assets}
      [] op = "earnings_value" ->
            RangeOf(args.historical_earnings) \cup ({args.asset_value} \ {None})

BridgeAmounts(bridge) ==
    {bridge.enterprise_value, bridge.plus_cash, bridge.minus_debt,
     bridge.plus_non_operating, bridge.equity_value}

\* The monetary amounts of the result at hand.
MonetaryOutputs ==
    CASE op = "practitioner" ->
            {ret.calculated_value, ret.details.earnings_value, ret.details.asset_value,
             ret.details.weighted_value}
      [] op = "ebitda_multiple" ->
            {ret.calculated_value, ret.enterprise_value, ret.equity_value,
             ret.details.ebitda_normalized} \cup BridgeAmounts(ret.details.bridge)
      [] op = "asset_value" ->
            {ret.calculated_value, ret.details.total_assets, ret.details.liabilities,
             ret.details.net_asset_value,
             ret.details.fixed_assets.real_estate, ret.details.fixed_assets.machinery_gross,
             ret.details.fixed_assets.machinery_depreciation,
             ret.details.fixed_assets.machinery_net, ret.details.fixed_assets.intangibles,
             ret.details.fixed_assets.total,
             ret.details.current_assets.inventory,
             ret.details.current_assets.receivables_gross,
             ret.details.current_assets.receivables_provision,
             ret.details.current_assets.receivables_net, ret.details.current_assets.cash,
             ret.details.current_assets.total}
      [] op = "dcf" ->
            {ret.calculated_value, ret.enterprise_value, ret.equity_value,
             ret.details.sum_pv_fcfs, ret.details.terminal_value,
             ret.details.pv_terminal_value}
                \cup RangeOf(ret.details.fcf_projections)
                \cup RangeOf(ret.details.pv_fcfs)
                \cup BridgeAmounts(ret.details.bridge)
      [] op = "earnings_value" ->
            {ret.calculated_value, ret.details.sustainable_earnings,
             ret.details.pure_earnings_value, ret.details.final_value}
                \cup RangeOf(ret.details.historical_earnings)
                \cup ({ret.details.asset_value} \ {None})

InCents(x) == Decimals(x) <= 2

\* C11: every monetary amount of a valuation result has at most 2 decimal
\* places, for all five calculators (the amounts handed in being amounts in
\* whole cents).
C11_MonetaryTwoDecimals ==
    (pc = "done" /\ op \in ValuationOps /\ ret.status = "ok"
        /\ \A x \in MonetaryInputs : InCents(x))
    => \A x \in MonetaryOutputs : InCents(x)

\* C12: with use_practitioner_method set, the earnings value calculation
\* returns (2 * earnings value + asset_value) / 3 rounded to 2 decimals and
\* practitioner_adjustment true; without the flag it returns the pure earnings
\* value and practitioner_adjustment false.
C12_PractitionerBlend ==
    Done("earnings_value") =>
        LET earnings_value ==
                DMul(DDiv(calculate_sustainable_earnings(args.historical_earnings),
                          DAdd(args.risk_free_rate, args.risk_premium)), D100)
        IN  IF args.use_practitioner_method
            THEN /\ ret.details.practitioner_adjustment
                 /\ NumEq(ret.calculated_value,
                          Float(Quantize2(DDiv(DAdd(DMul(Dec(2, 0), earnings_value),
                                                    args.asset_value), Dec(3, 0)))))
            ELSE /\ ~ret.details.practitioner_adjustment
                 /\ NumEq(ret.calculated_value, ret.details.pure_earnings_value)

\* The parameters that the construction of DCFParams is to refuse.
DCFRejected(p) ==
    \/ Len(p.fcf_projections) = 0
    \/ NumLe(p.wacc, D0)
    \/ NumLe(p.wacc, p.terminal_growth_rate)
    \/ NumLt(p.terminal_growth_rate, D0)

\* Neither divisor of DCFService.calculate is zero.
DCFDivisorsNonZero(p) ==
    /\ NumLt(D0, DSub(p.wacc, p.terminal_growth_rate))
    /\ \A t \in 1..Len(p.fcf_projections) : NumLt(D0, DPow(DAdd(D1, p.wacc), t))

\* C13 (as stated): the construction of DCFParams fails for an empty
\* projection list, wacc <= 0, terminal_growth_rate >= wacc or
\* terminal_growth_rate < 0; for all other parameters no divisor of the
\* calculation is zero and the calculation returns a result.
C13_DCFAlwaysReturns ==
    (pc = "done" /\ op = "dcf") =>
        /\ DCFRejected(args) => ret.status = "ValueError"
        /\ ~DCFRejected(args) => DCFDivisorsNonZero(args) /\ ret.status = "ok"

\* The five amounts that DCFService.calculate rounds to 2 decimals.
DCFRoundedAmounts(p) ==
    LET n == Len(p.fcf_projections)
        enterprise_value == DCFEnterpriseValue(p)
    IN  {enterprise_value,
         DAdd(DSub(DAdd(enterprise_value, p.cash), p.debt), p.non_operating_assets),
         DCFTerminalValue(p),
         DDiv(DCFTerminalValue(p), DPow(DAdd(D1, p.wacc), n)),
         DCFSumPv(p, n)}

\* The whole units in the magnitude of x.
WholeUnits(x) ==
    IF x.e >= 0 THEN Abs(x.c) * Pow10(x.e) ELSE Abs(x.c) \div Pow10(-x.e)

\* x rounded to 2 decimals certainly fits the precision of the context.
FitsCents(x) == WholeUnits(x) < Pow10(DecimalPrec - 2) - 1

\* C13 (amended): the construction fails for the parameters named; for all
\* other parameters no divisor is zero, and the calculation returns a result
\* whenever the amounts it rounds fit the precision of the decimal context
\* with 2 decimals; when one does not, quantize raises InvalidOperation.
C13_DCFNoDivisionByZero ==
    (pc = "done" /\ op = "dcf") =>
        /\ DCFRejected(args) => ret.status = "ValueError"
        /\ ~DCFRejected(args) =>
              /\ DCFDivisorsNonZero(args)
              /\ ret.status \in {"ok", "InvalidOperation"}
              /\ (\A x \in DCFRoundedAmounts(args) : FitsCents(x))
                    => ret.status = "ok"
              /\ ret.status = "InvalidOperation"
                    => \E x \in DCFRoundedAmounts(args) : ~FitsCents(x)

\* A DCF over the longest projection list with the terminal growth rate close
\* below the WACC.
C13_Witness ==
    /\ Done("dcf")
    /\ Len(args.fcf_projections) = MaxFcf
    /\ NumEq(args.wacc, Dec(5, -1))
    /\ NumEq(args.terminal_growth_rate, Dec(25, -2))
    /\ ~NumEq(args.fcf_projections[MaxFcf], D0)

\* C14: an earnings value calculation whose parameters pass validation with
\* risk_free_rate = 0 and risk_premium = 0 raises an arithmetic error of the
\* division (DivisionByZero, or InvalidOperation for 0 / 0) and yields no
\* result.
C14_ZeroCapitalizationFails ==
    (/\ pc = "done" /\ op = "earnings_value"
     /\ Len(args.historical_earnings) >= 3
     /\ ~(args.use_practitioner_method /\ args.asset_value = None)
     /\ NumEq(args.risk_free_rate, D0) /\ NumEq(args.risk_premium, D0))
    => /\ ret.status \in {"DivisionByZero", "InvalidOperation"}
       /\ "calculated_value" \notin DOMAIN ret

\* Three years of earnings that are not all zero, capitalised at rate zero.
C14_Witness ==
    /\ pc = "done" /\ op = "earnings_value"
    /\ Len(args.historical_earnings) = 3
    /\ NumEq(args.risk_free_rate, D0) /\ NumEq(args.risk_premium, D0)
    /\ NumLt(D0, args.historical_earnings[1])
    /\ ret.status = "DivisionByZero"

\* C15: a parameter object out of its domain is refused at construction with
\* a ValueError: EBITDA parameters with risk_score outside 1..10 or a negative
\* growth_rate, practitioner parameters with earnings_weight outside [0, 1],
\* sensitivity parameters with min_value >= max_value or steps < 2; no
\* calculation is made with it (no result, no call of the valuation function).
C15_OutOfDomainRejected ==
    pc = "done" =>
        /\ (op = "ebitda_multiple"
              /\ (args.risk_score < 1 \/ args.risk_score > 10 \/ NumLt(args.growth_rate, D0)))
           => ret = Raise("ValueError")
        /\ (op = "practitioner"
              /\ (NumLt(args.earnings_weight, D0) \/ NumLt(D1, args.earnings_weight)))
           => ret = Raise("ValueError")
        /\ (op = "perform_analysis"
              /\ (NumLe(args.params.max_value, args.params.min_value)
                    \/ args.params.steps < 2))
           => ret = Raise("ValueError") /\ log = <<>>

\* A sweep asked for over an empty range, with enough steps.
C15_Witness ==
    /\ pc = "done" /\ op = "perform_analysis"
    /\ NumEq(args.params.max_value, args.params.min_value)
    /\ args.params.steps = 3
    /\ ret = Raise("ValueError")

ForecastOps == {"manual_forecast", "arima_forecast", "prophet_forecast"}

\* The parameter object of the forecast at hand.
ForecastParams == IF op = "manual_forecast" THEN args ELSE args.params

\* The common precondition is broken by the parameters p.
PreconditionBroken(p) ==
    \/ Len(p.historical_data) < 3
    \/ "years" \in DOMAIN p /\ (p.years < 1 \/ p.years > 10)
    \/ "confidence_level" \in DOMAIN p
         /\ (NumLe(p.confidence_level, D0) \/ NumLe(D1, p.confidence_level))

C17_UniqueYears ==
    Done("manual_forecast") =>
        /\ args.projections # <<>>
        /\ \A i \in 1..Len(args.projections) : NumLe(D0, args.projections[i].value)
        /\ \A i, j \in 1..Len(args.projections) :
             i # j => args.projections[i].year # args.projections[j].year
        /\ \A i, j \in 1..Len(ret.predictions) :
             i # j => ret.predictions[i].year # ret.predictions[j].year

\* C18: the model_metrics of the result of every forecast module has the
\* fields mape, rmse and mae.
C18_MetricsFields ==
    (pc = "done" /\ op \in ForecastOps /\ ret.status = "ok") =>
        {"mape", "rmse", "mae"} \subseteq DOMAIN ret.model_metrics

\* An ARIMA calculation that ran the order search.
SearchRan ==
    /\ pc = "done" /\ op = "arima_forecast"
    /\ ret.status # "ValueError"
    /\ args.params.auto_order
    /\ args.lib.adf # "error"

\* The candidates whose fit converges, and their AIC.
Converging == {c \in Candidates : ~args.lib.fits[c].raised}
AicOf(c) == args.lib.fits[c].aic

\* The candidates that converge with an AIC that is a number.
Comparable == {c \in Converging : AicOf(c).k = "num"}

\* Position of a candidate in ascending p-then-q order.
Rank(c) == 4 * c.p + c.q

StationarityOrder == IF args.lib.adf = "stationary" THEN 0 ELSE 1

\* The order the calculation fits in the end, and its (p, q).
UsedOrder == log[Len(log)].order
UsedCandidate == [p |-> UsedOrder.p, q |-> UsedOrder.q]

\* The fits of the search are those of (p, d, q) for p, q in 0..3, p-then-q
\* ascending, at d = 0 iff the series is stationary.
SearchesGrid ==
    /\ Len(log) = 19
    /\ \A k \in 0..15 :
         log[k + 3] = [call |-> "fit",
                       order |-> [p |-> k \div 4, d |-> StationarityOrder, q |-> k % 4]]

\* b is no better than a: not b < a, on floats.
NotBelow(b, a) ==
    ~(b.k = "num" /\ (a.k = "inf" \/ (a.k = "num" /\ b.v < a.v)))

\* C19 (as stated): the search fits exactly the 16 candidates at one
\* differencing order; when at least one candidate converges, the order
\* selected is a converging candidate of minimal AIC among the converging
\* ones, the first of them in p-then-q order.
C19_MinimalAIC ==
    SearchRan =>
        /\ SearchesGrid
        /\ Converging # {} =>
              /\ UsedOrder.d = StationarityOrder
              /\ UsedCandidate \in Converging
              /\ \A c \in Converging :
                   /\ NotBelow(AicOf(c), AicOf(UsedCandidate))
                   /\ AicOf(c) = AicOf(UsedCandidate) => Rank(UsedCandidate) <= Rank(c)

\* C19 (amended): the search fits exactly the 16 candidates at one
\* differencing order; when at least one candidate converges with an AIC that
\* is a number, the order selected is the first such candidate of minimal AIC,
\* and otherwise (no candidate converges, or every converging candidate has
\* the AIC NaN or +inf) it is the fallback (1, d, 1).
C19_MinimalComparableAIC ==
    SearchRan =>
        /\ SearchesGrid
        /\ UsedOrder.d = StationarityOrder
        /\ Comparable # {} =>
              /\ UsedCandidate \in Comparable
              /\ \A c \in Comparable :
                   /\ AicOf(UsedCandidate).v <= AicOf(c).v
                   /\ AicOf(c).v = AicOf(UsedCandidate).v => Rank(UsedCandidate) <= Rank(c)
        /\ Comparable = {} => UsedCandidate = [p |-> 1, q |-> 1]

\* A search in which candidates fail and the minimal AIC is reached by two
\* candidates, the later of which is not selected.
C19_Witness ==
    /\ SearchRan
    /\ Converging # Candidates
    /\ \E c \in Comparable :
         /\ Rank(c) > Rank(UsedCandidate)
         /\ AicOf(c) = AicOf(UsedCandidate)
    /\ ret.status = "ok"

\* C20 (as stated): whatever fits fail, the search fits all 16 candidates and
\* returns an order; the calculation fails for non-convergence only if no
\* candidate converges, the order used being the fallback (1, d, 1).
C20_SearchNeverAborts ==
    SearchRan =>
        /\ SearchesGrid
        /\ ret.status = "FitError" =>
              /\ Converging = {}
              /\ UsedOrder = [p |-> 1, d |-> StationarityOrder, q |-> 1]

\* C20 (amended): whatever fits fail, the search fits all 16 candidates and
\* returns an order; the calculation fails for non-convergence exactly when
\* no candidate converges with an AIC that is a number and the fit of the
\* fallback (1, d, 1), which is then the order used, does not converge.
C20_FailsOnlyOnFallback ==
    SearchRan =>
        /\ SearchesGrid
        /\ ret.status = "FitError" <=>
              /\ Comparable = {}
              /\ args.lib.fits[[p |-> 1, q |-> 1]].raised
        /\ ret.status = "FitError" =>
              UsedOrder = [p |-> 1, d |-> StationarityOrder, q |-> 1]

\* A search whose first candidate fails and in which a single candidate
\* converges, which the calculation then uses.
C20_Witness ==
    /\ SearchRan
    /\ args.lib.fits[[p |-> 0, q |-> 0]].raised
    /\ Cardinality(Converging) = 1
    /\ UsedCandidate \in Converging
    /\ ret.status = "ok"

\* What calculate_valuation_method does for each method of the request in args.
Calculated ==
    [i \in 1..Len(args.methods) |->
        calculate_valuation_method(args.methods[i].method, args.methods[i].parameters)]

\* The method results added to the persistence session, in the order of db.add.
StoredMethodResults == SelectSeq(log, LAMBDA row : row.table = "valuation_method_results")

NothingStored == log = <<>>

\* One method result per requested method, in request order.
OnePerMethodInOrder ==
    /\ Len(StoredMethodResults) = Len(args.methods)
    /\ \A i \in 1..Len(args.methods) :
         /\ StoredMethodResults[i].method = args.methods[i].method
         /\ StoredMethodResults[i].calculated_value
               = DecOfFloat(Calculated[i].calculated_value)

\* C21: in create_valuation, if the calculation of any requested method fails
\* the request fails and nothing has been added to the persistence session;
\* otherwise exactly one method result per requested method is stored, in
\* request order.
C21_AllOrEveryMethod ==
    (pc = "done" /\ op = "create_valuation") =>
        IF \E i \in 1..Len(args.methods) : Calculated[i].status # "ok"
        THEN ret.status # "ok" /\ NothingStored
        ELSE OnePerMethodInOrder

\* C21 (amended): if the calculation of any requested method fails, the request
\* fails with HTTP 400 and nothing has been added to the session; if all
\* succeed and company_id is a UUID, the session holds the valuation, then one
\* method result per requested method in request order, and is committed; if
\* all succeed and company_id is no UUID, the request fails with ValueError
\* and nothing has been added.
C21_CombinedAfterAllComplete ==
    (pc = "done" /\ op = "create_valuation") =>
        IF \E i \in 1..Len(args.methods) : Calculated[i].status # "ok"
        THEN /\ ret.status = "HTTPException" /\ ret.status_code = 400
             /\ NothingStored
        ELSE IF args.company_id = "uuid"
        THEN /\ ret.status = "ok"
             /\ Len(log) = Len(args.methods) + 2
             /\ log[1].table = "valuations"
             /\ log[Len(log)].table = "commit"
             /\ OnePerMethodInOrder
        ELSE /\ ret = Raise("ValueError")
             /\ NothingStored

\* A request of two methods whose first calculation succeeds and whose second
\* fails: the request fails with nothing stored.
C21_Witness ==
    /\ pc = "done" /\ op = "create_valuation"
    /\ Len(args.methods) = 2
    /\ Calculated[1].status = "ok"
    /\ Calculated[2].status # "ok"
    /\ ret.status = "HTTPException"
    /\ NothingStored

\* The two-case formula: 0 below 10, else min(0.30, (growth_rate - 10) * 0.015).
TwoCaseGrowthFactor(growth_rate) ==
    IF NumLt(growth_rate, Int2Dec(10)) THEN D0
    ELSE LET g == DMul(DSub(growth_rate, Int2Dec(10)), Dec(15, -3))
         IN  IF NumLt(g, Dec(30, -2)) THEN g ELSE Dec(30, -2)

\* C22: for every growth_rate >= 0, calculate_growth_factor returns 0 when
\* growth_rate < 10 and min(0.30, (growth_rate - 10) * 0.015) otherwise; it is
\* non-decreasing in growth_rate and always lies in [0, 0.30].
C22_GrowthFactorFormula ==
    (pc = "done" /\ op = "calculate_growth_factor" /\ NumLe(D0, args.growth_rate)) =>
        /\ NumEq(ret.value, TwoCaseGrowthFactor(args.growth_rate))
        /\ NumLt(args.growth_rate, Int2Dec(10)) => NumEq(ret.value, D0)
        /\ NumLe(D0, ret.value) /\ NumLe(ret.value, Dec(30, -2))
        /\ \A h \in GrowthRateVals :
             (NumLe(D0, h) /\ NumLe(h, args.growth_rate)) =>
                 NumLe(calculate_growth_factor(h), ret.value)

\* A growth rate of the last branch at which the cap applies, above smaller
\* rates of every branch.
C22_Witness ==
    /\ pc = "done" /\ op = "calculate_growth_factor"
    /\ NumEq(args.growth_rate, Dec(40, 0))
    /\ NumEq(ret.value, Dec(30, -2))
    /\ NumLt(Dec(30, -2), DMul(DSub(args.growth_rate, Int2Dec(10)), Dec(15, -3)))

\* C23: in every EBITDA-multiple result the reported enterprise_value equals
\* details.ebitda_normalized multiplied by the reported
\* details.adjusted_multiple, rounded to 2 decimals.
C23_EnterpriseFromDetails ==
    Done("ebitda_multiple") =>
        NumEq(ret.enterprise_value,
              Quantize2(MulX(ret.details.ebitda_normalized,
                             ret.details.adjusted_multiple)))

\* The manual forecast in the slot was given non-empty historical data and
\* projections, all of positive value.
AllPositive(data) == \A i \in 1..Len(data) : NumLt(D0, data[i].value)

PositiveManualForecast ==
    /\ Done("manual_forecast")
    /\ args.historical_data # <<>>
    /\ AllPositive(args.historical_data)
    /\ AllPositive(args.projections)

\* The value projection i is compared with: the last historical value for the
\* first projection, the previous projection otherwise.
Predecessor(i) ==
    IF i = 1 THEN args.historical_data[Len(args.historical_data)].value
    ELSE args.projections[i - 1].value

\* |value - predecessor| / predecessor > 0.5, for a positive predecessor.
ChangeAboveHalf(i) ==
    NumLt(MulX(Dec(5, -1), Predecessor(i)),
          NumAbs(SubX(args.projections[i].value, Predecessor(i))))

\* The years of the projections from i on whose change exceeds 50%, in order.
RECURSIVE FlaggedYears(_)
FlaggedYears(i) ==
    IF i > Len(args.projections) THEN <<>>
    ELSE (IF ChangeAboveHalf(i) THEN <<args.projections[i].year>> ELSE <<>>)
            \o FlaggedYears(i + 1)

ExtremeGrowthWarnings ==
    SelectSeq(ret.validation.warnings, LAMBDA w : w.kind = "extreme_growth")

\* C24: with non-empty, positive historical data and positive projections,
\* validate_plausibility emits exactly one extreme-growth warning, naming the
\* projection's year, for each projection whose relative change from its
\* predecessor exceeds 50% in absolute value, and none for the others; a change
\* of exactly 50% is not flagged.
C24_ExtremeGrowthWarnings ==
    PositiveManualForecast =>
        /\ [j \in 1..Len(ExtremeGrowthWarnings) |-> ExtremeGrowthWarnings[j].year]
              = FlaggedYears(1)
        /\ ret.validation.warnings = ExtremeGrowthWarnings

\* Two projections after the historical value 2: 3 is a change of exactly 50%
\* and is not flagged, 1 is a change of -66.7% and is flagged with its year.
C24_Witness ==
    /\ PositiveManualForecast
    /\ Len(args.projections) = 2
    /\ NumEq(Predecessor(1), Dec(2, 0))
    /\ NumEq(args.projections[1].value, Dec(3, 0))
    /\ NumEq(args.projections[2].value, D1)
    /\ args.projections[1].year # args.projections[2].year
    /\ Len(ret.validation.warnings) = 1
    /\ ret.validation.warnings[1].year = args.projections[2].year

\* perform_analysis was entered: the sweep parameters were constructed.
SweepEntered ==
    /\ pc = "done" /\ op = "perform_analysis"
    /\ NumLt(args.params.min_value, args.params.max_value)
    /\ args.params.steps >= 2

\* min_value + i * step_size, step_size = (max_value - min_value) / steps.
PointValue(i) ==
    DAdd(args.params.min_value,
         DMul(Int2Dec(i), DDiv(DSub(args.params.max_value, args.params.min_value),
                               Int2Dec(args.params.steps))))

\* Invocation i (counted from 0) was passed base_params with the single key
\* variable_name overridden by the value of point i.
PassedOverride(i) ==
    /\ DOMAIN log[i + 1] = DOMAIN args.base_params \cup {args.params.variable_name}
    /\ \A k \in DOMAIN log[i + 1] :
         IF k = args.params.variable_name
         THEN log[i + 1][k] = PointValue(i)
         ELSE log[i + 1][k] = args.base_params[k]

BaseParamsUnmodified == args.base_params_after = args.base_params

\* C25: perform_analysis never modifies base_params; it invokes the valuation
\* calculator exactly steps+1 times, in increasing order of the point index i,
\* with base_params in which only variable_name is overridden, by min_value +
\* i * step_size; results[i] records the calculated_value of invocation i as
\* equity_value.
C25_AlwaysAllPoints ==
    SweepEntered =>
        /\ BaseParamsUnmodified
        /\ Len(log) = args.params.steps + 1
        /\ \A i \in 0..args.params.steps : PassedOverride(i)
        /\ ret.status = "ok"
        /\ \A i \in 0..args.params.steps :
             ret.results[i + 1].equity_value = valuation_func(log[i + 1]).calculated_value

\* C25 (amended): perform_analysis never modifies base_params, and invocation
\* i is passed base_params with only variable_name overridden, by min_value +
\* i * step_size, in increasing order of i. When the calculator returns at
\* every point there are exactly steps+1 invocations and results[i] records
\* the calculated_value of invocation i as equity_value; when it raises at a
\* point, that invocation is the last one and the exception is passed on.
C25_FrameAndCallsUntilRaise ==
    SweepEntered =>
        /\ BaseParamsUnmodified
        /\ Len(log) >= 1 /\ Len(log) <= args.params.steps + 1
        /\ \A i \in 0..(Len(log) - 1) : PassedOverride(i)
        /\ \A i \in 0..(Len(log) - 2) : valuation_func(log[i + 1]).status = "ok"
        /\ IF valuation_func(log[Len(log)]).status = "ok"
           THEN /\ Len(log) = args.params.steps + 1
                /\ ret.status = "ok"
                /\ Len(ret.results) = args.params.steps + 1
                /\ \A i \in 0..args.params.steps :
                     ret.results[i + 1].equity_value
                        = valuation_func(log[i + 1]).calculated_value
           ELSE ret = Raise(valuation_func(log[Len(log)]).status)

\* A completed sweep of 3 steps over a key of base_params, no point of which
\* takes the value base_params holds for it.
C25_Witness ==
    /\ SweepEntered
    /\ ret.status = "ok"
    /\ args.params.steps = 3
    /\ Len(log) = 4
    /\ args.params.variable_name \in DOMAIN args.base_params
    /\ \A i \in 0..3 :
         ~NumEq(log[i + 1][args.params.variable_name],
                args.base_params[args.params.variable_name])
    /\ BaseParamsUnmodified

\* EarningsValueParams constructed directly from the request's parameters,
\* the rates as the percentages the request gives.
DirectEarningsParams(parameters) ==
    [EarningsValueParamsOf(parameters)
        EXCEPT !.risk_free_rate = DecStr(parameters, "risk_free_rate"),
               !.risk_premium = DecStr(parameters, "risk_premium")]

\* C26: for an earnings_value request handled by calculate_valuation_method
\* with risk_free_rate and risk_premium given as percentages summing to c > 0,
\* the returned pure earnings value is the one EarningsValueService.calculate
\* returns when constructed directly with those percent rates
\* (mean(historical_earnings) * 100 / c).
C26_RatesInCalculatorUnit ==
    Done("create_valuation") =>
        \A i \in 1..Len(args.methods) :
            (/\ args.methods[i].method = "earnings_value"
             /\ NumLt(D0, AddX(args.methods[i].parameters["risk_free_rate"],
                               args.methods[i].parameters["risk_premium"])))
            => NumEq(ret.method_results[i].details.pure_earnings_value,
                     EarningsValue(DirectEarningsParams(args.methods[i].parameters))
                        .details.pure_earnings_value)

\* C27: for every forecast module and every base prediction with lower_bound
\* <= predicted_value <= upper_bound, generate_scenarios yields
\* worst.predicted_value <= base.predicted_value <= best.predicted_value for
\* the same year, negative and zero bounds and values included.
C27_ScenarioEnvelope ==
    (pc = "done" /\ op \in ScenarioOps /\ ret.status = "ok") =>
        \A i \in 1..Len(ret.base) :
            WithinBounds(ret.base[i]) =>
                /\ ret.worst[i].year = ret.base[i].year
                /\ ret.best[i].year = ret.base[i].year
                /\ NumLe(ret.worst[i].predicted_value, ret.base[i].predicted_value)
                /\ NumLe(ret.base[i].predicted_value, ret.best[i].predicted_value)

\* C28: for every validly constructed SensitivityParams the first variable
\* value of the sweep equals min_value and the last (index steps) equals
\* max_value, also when (max_value - min_value) is not exactly divisible by
\* steps in the decimal arithmetic.
C28_RangeCoveredExactly ==
    Done("perform_analysis") =>
        /\ NumEq(SweepValues[1], ret.min_value)
        /\ NumEq(SweepValues[args.params.steps + 1], ret.max_value)

\* A result of validate_plausibility is in the slot: of a call of its own or
\* as the validation of a manual forecast.
Validated ==
    /\ pc = "done" /\ ret.status = "ok"
    /\ op \in {"validate_plausibility", "manual_forecast"}

Validation == IF op = "validate_plausibility" THEN ret ELSE ret.validation

\* C29: in every result of validate_plausibility, is_plausible is true if and
\* only if the warnings list is empty, empty historical data included.
C29_PlausibleIffNoWarnings ==
    Validated => (Validation.is_plausible <=> Validation.warnings = <<>>)

\* C29 (amended): with non-empty historical data is_plausible is true if and
\* only if the warnings list is empty; with empty historical data is_plausible
\* is true and the warnings list holds the one notice that there is no
\* historical data to compare with.
C29_PlausibleIffNoWarningsGivenHistory ==
    Validated =>
        IF args.historical_data = <<>>
        THEN /\ Validation.is_plausible
             /\ Validation.warnings = <<[kind |-> "no_historical_data"]>>
        ELSE Validation.is_plausible <=> Validation.warnings = <<>>

\* A check against historical data that flags a negative projected value:
\* the result is not plausible.
C29_Witness ==
    /\ Validated
    /\ op = "validate_plausibility"
    /\ args.historical_data # <<>>
    /\ \E j \in 1..Len(ret.warnings) : ret.warnings[j].kind = "negative_value"
    /\ ~ret.is_plausible

\* ManualForecastParams was constructed: a non-empty list of projections of
\* non-negative value.
ManualParamsConstructed ==
    /\ pc = "done" /\ op = "manual_forecast"
    /\ args.projections # <<>>
    /\ \A i \in 1..Len(args.projections) : NumLe(D0, args.projections[i].value)

\* C30: for every constructed ManualForecastParams whose historical data
\* contains at least one non-zero value, calculate returns a result without
\* raising, including when some historical or projected value is zero.
C30_FailsOnlyWhenAllZero ==
    (/\ ManualParamsConstructed
     /\ \E i \in 1..Len(args.historical_data) :
           ~NumEq(args.historical_data[i].value, D0))
    => ret.status = "ok"
====
